---- MODULE Spec2Model ----
(***************************************************************************)
(* A model of the Hive rules engine of wgreenberg/roach:                   *)
(*   - Hex          (src/hive/src/hex.rs)                                  *)
(*   - Piece        (src/hive/src/piece.rs)                                *)
(*   - GameState    (src/src/game_state.rs)                                *)
(* The game is driven through GameState::submit_turn only.  Inputs are     *)
(* recorded games (the openings of the repository's own test-suite and a   *)
(* few more), replayed turn by turn through submit_turn, from any prefix   *)
(* of which the players may leave the record and play any turn at all for  *)
(* a bounded number of turns.                                              *)
(***************************************************************************)
EXTENDS Integers, Sequences, FiniteSets, TLC

VARIABLES
    unplayed_pieces,   \* GameState.unplayed_pieces : Vec<Piece>
    board,             \* GameState.board  : HashMap<Hex, Piece> (top pieces)
    stacks,            \* GameState.stacks : HashMap<Hex, Vec<Piece>> (covered)
    turns,             \* GameState.turns  : Vec<Turn>
    current_player,    \* GameState.current_player
    status,            \* GameState.status
    game_type,         \* GameState.game_type
    first_player,      \* the first_player argument the game was created with
    submitted,         \* the turn handed to the latest submit_turn call
    result,            \* what that call returned
    n_accepted,        \* how many submit_turn calls returned Ok so far
    script,            \* the rest of the recorded game being replayed
    free,              \* turns the players may still play off the record
    engine_game,       \* Engine.game : Option<GameState>
    search_tree,       \* the MCSearchTree: arena, options, maxi_player
    search,            \* find_best_action: its loop counter, locals and result
    mm                 \* the Matchmaker: pool, pending_matches, player_clients

gameVars == << unplayed_pieces, board, stacks, turns, current_player, status,
               game_type >>

vars == << unplayed_pieces, board, stacks, turns, current_player, status,
           game_type, first_player, submitted, result, n_accepted, script,
           free, engine_game, search_tree, search, mm >>

\* How many turns may be played off the record in one run.
MaxFree == 1

-----------------------------------------------------------------------------
(* Generic helpers *)

Range(s) == { s[i] : i \in DOMAIN s }

Last(s) == s[Len(s)]

Abs(n) == IF n < 0 THEN -n ELSE n

\* The element of a one-element set.  { F(v) : v \in { value } } names a value
\* once it is computed, as a let binding in the source does.
Only(S) == CHOOSE x \in S : TRUE

\* Option<T>: None is the empty tuple, Some(v) the one-tuple.
None == << >>

Some(v) == << v >>

-----------------------------------------------------------------------------
(* Hex: cube coordinates.  The coordinates are i8 in the source; a game of  *)
(* at most 28 pieces keeps every coordinate the code computes far inside    *)
(* -128..127, so no arithmetic here can overflow.                           *)

Hex(x, y, z) == [x |-> x, y |-> y, z |-> z]

ORIGIN == Hex(0, 0, 0)

add(a, b) == Hex(a.x + b.x, a.y + b.y, a.z + b.z)

sub(a, b) == Hex(a.x - b.x, a.y - b.y, a.z - b.z)

dist(a, b) == (Abs(a.x - b.x) + Abs(a.y - b.y) + Abs(a.z - b.z)) \div 2

is_adj(a, b) == dist(a, b) = 1

ne(h) == add(h, Hex(1, 0, -1))

nw(h) == add(h, Hex(0, 1, -1))

se(h) == add(h, Hex(0, -1, 1))

sw(h) == add(h, Hex(-1, 0, 1))

e(h) == add(h, Hex(1, -1, 0))

w(h) == add(h, Hex(-1, 1, 0))

\* The six neighbours, in the order the source lists them (clockwise).
neighbors(h) == << ne(h), e(h), se(h), sw(h), w(h), nw(h) >>

\* The source returns a sorted, deduplicated Vec: a set.
get_empty_neighbors(hexes) ==
    (UNION { Range(neighbors(h)) : h \in hexes }) \ hexes

RECURSIVE dfs(_, _, _)
RECURSIVE dfs_neighbors(_, _, _, _)

\* The loop of dfs over hex.neighbors(), from the i-th neighbour on, with the
\* visited list threaded through the recursive calls.
dfs_neighbors(hex, hexes, visited, i) ==
    IF i > Len(neighbors(hex)) THEN visited
    ELSE LET neighbor == neighbors(hex)[i]
         IN  IF neighbor \in hexes /\ neighbor \notin visited
             THEN UNION { dfs_neighbors(hex, hexes, seen, i + 1) :
                          seen \in { dfs(neighbor, hexes, visited) } }
             ELSE dfs_neighbors(hex, hexes, visited, i + 1)

dfs(hex, hexes, visited) ==
    UNION { dfs_neighbors(hex, hexes, seen, 1) : seen \in { visited \cup {hex} } }

\* hexes[0] is whichever key the HashMap yields first; any element will do.
all_contiguous(hexes) ==
    IF hexes = {} THEN FALSE
    ELSE LET start == CHOOSE h \in hexes : TRUE
         IN  dfs(start, hexes, {}) = hexes

\* A faulty variant that C14 tells apart: one pincer is looked at twice.
get_pincers_same(a, b) ==
    IF dist(a, b) = 1
    THEN LET vec == sub(b, a)
             p1 == Hex(-vec.z, -vec.x, -vec.y)
         IN  Some(<< add(a, p1), add(a, p1) >>)
    ELSE None

get_pincers(a, b) ==
    IF dist(a, b) = 1
    THEN LET vec == sub(b, a)
             p1 == Hex(-vec.z, -vec.x, -vec.y)
             p2 == Hex(-vec.y, -vec.z, -vec.x)
         IN  Some(<< add(a, p1), add(a, p2) >>)
    ELSE None

RECURSIVE dfs_with_gate_checks(_, _, _, _, _, _)

\* Each recursive call works on its own clone of visited, so a hex is only
\* barred from the paths that already passed through it.
dfs_with_gate_checks(hex, hexes, barriers, visited, d, max_dist) ==
    IF max_dist # None /\ d = max_dist[1] THEN {hex}
    ELSE LET open(neighbor, v) ==
                 /\ neighbor \in hexes
                 /\ neighbor \notin v
                 /\ \/ barriers = {}
                    \/ \E pincers \in { get_pincers(hex, neighbor)[1] } :
                         (pincers[1] \in barriers) # (pincers[2] \in barriers)
         IN  (IF max_dist = None THEN {hex} ELSE {})
             \cup UNION { UNION { dfs_with_gate_checks(neighbor, hexes, barriers,
                                                       v, d + 1, max_dist) :
                                  neighbor \in { n \in Range(neighbors(hex)) :
                                                   open(n, v) } } :
                          v \in { visited \cup {hex} } }

pathfind(start, hexes, barriers, max_dist) ==
    IF max_dist = Some(0) THEN {start}
    ELSE dfs_with_gate_checks(start, hexes, barriers, {}, 0, max_dist) \ {start}

-----------------------------------------------------------------------------
(* Piece *)

White == "White"

Black == "Black"

\* struct Piece { id, bug, owner }
P(bug, owner, id) == [id |-> id, bug |-> bug, owner |-> owner]

Piece_new(bug, owner) == P(bug, owner, 1)

Piece_new_set(bug, owner, num_pieces) ==
    [i \in 1..num_pieces |-> P(bug, owner, (i - 1) + 1)]

-----------------------------------------------------------------------------
(* GameState *)

\* A faulty variant that C7 tells apart: the player does not change.
other_same(player) == player

other(player) == IF player = White THEN Black ELSE White

\* enum GameType { Base, PLM(bool, bool, bool) }
Base == [kind |-> "Base"]

PLM(pillbug, ladybug, mosquito) ==
    [kind |-> "PLM", pillbug |-> pillbug, ladybug |-> ladybug,
     mosquito |-> mosquito]

\* enum GameStatus { NotStarted, InProgress, Draw, Win(Player) }
NotStarted == [kind |-> "NotStarted"]

InProgress == [kind |-> "InProgress"]

Draw == [kind |-> "Draw"]

Win(player) == [kind |-> "Win", player |-> player]

\* enum Turn { Place(Piece, Hex), Move(Piece, Hex), Pass }
Place(piece, hex) == [kind |-> "Place", piece |-> piece, hex |-> hex]

Move(piece, hex) == [kind |-> "Move", piece |-> piece, hex |-> hex]

Pass == [kind |-> "Pass"]

\* The numbers of Ants, Grasshoppers, Beetles and Spiders a player starts with.
NumAnts == 3

NumGrasshoppers == 3

NumBeetles == 2

NumSpiders == 2

player_pieces(game_type_, player) ==
    Piece_new_set("Ant", player, NumAnts)
    \o Piece_new_set("Grasshopper", player, NumGrasshoppers)
    \o Piece_new_set("Beetle", player, NumBeetles)
    \o Piece_new_set("Spider", player, NumSpiders)
    \o << Piece_new("Queen", player) >>
    \o (IF game_type_.kind = "PLM" /\ game_type_.pillbug
        THEN << Piece_new("Pillbug", player) >> ELSE << >>)
    \o (IF game_type_.kind = "PLM" /\ game_type_.ladybug
        THEN << Piece_new("Ladybug", player) >> ELSE << >>)
    \o (IF game_type_.kind = "PLM" /\ game_type_.mosquito
        THEN << Piece_new("Mosquito", player) >> ELSE << >>)

get_initial_pieces(game_type_) ==
    player_pieces(game_type_, White) \o player_pieces(game_type_, Black)

\* A GameState value; the empty HashMaps are the functions with empty domain.
new_with_type(first_player_, game_type_) ==
    [unplayed_pieces |-> get_initial_pieces(game_type_),
     board           |-> << >>,
     stacks          |-> << >>,
     turns           |-> << >>,
     current_player  |-> first_player_,
     status          |-> NotStarted,
     game_type       |-> game_type_]

turn_no(g) == Len(g.turns) + 1

\* The occupied hexes: board.keys() / board.contains_key
occupied(g) == DOMAIN g.board

RECURSIVE count_flips(_, _, _, _, _)

\* The loop of check_one_hive_rule over piece.neighbors().enumerate(); the
\* source's index i starts at 0, the sequence index here at 1.
count_flips(g, ns, i, group, n_flips) ==
    IF i > Len(ns) THEN n_flips
    ELSE IF ns[i] \in occupied(g)
         THEN IF ~group
              THEN count_flips(g, ns, i + 1, TRUE,
                               IF i - 1 > 0 THEN n_flips + 1 ELSE n_flips)
              ELSE count_flips(g, ns, i + 1, group, n_flips)
         ELSE IF group
              THEN count_flips(g, ns, i + 1, FALSE, n_flips + 1)
              ELSE count_flips(g, ns, i + 1, group, n_flips)

\* A faulty variant that C1 tells apart: every piece may be picked up.
check_one_hive_rule_skipped(g, board_hexes, piece) == TRUE

check_one_hive_rule(g, board_hexes, piece) ==
    IF count_flips(g, neighbors(piece), 1, FALSE, 0) <= 2 THEN TRUE
    ELSE all_contiguous(board_hexes)

\* stacks.get(hex), with no entry read as the empty stack.
stack_at(g, hex) == IF hex \in DOMAIN g.stacks THEN g.stacks[hex] ELSE << >>

\* A faulty variant that C13 tells apart: no neighbour counts as just moved.
just_moved_to_never(g, hex) == FALSE

just_moved_to(g, hex) ==
    /\ g.turns # << >>
    /\ Last(g.turns).kind = "Move"
    /\ Last(g.turns).hex = hex

get_pillbug_tosses(g, hex) ==
    LET around == Range(neighbors(hex))
        nbrs == { n \in around : n \in occupied(g) }
        empty == around \ nbrs
        tossable(neighbor) ==
            \* we can't move neighbors that've just been moved
            /\ ~just_moved_to(g, neighbor)
            \* can't toss pieces on a stack
            /\ Len(stack_at(g, neighbor)) = 0
            \* the neighbor can be moved without violating the One Hive Rule
            /\ check_one_hive_rule(g, occupied(g) \ {neighbor}, neighbor)
    IN  { Move(g.board[neighbor], dest) :
            neighbor \in { n \in nbrs : tossable(n) }, dest \in empty }

RECURSIVE hop(_, _, _, _)

\* The Grasshopper's while loop: keep going until an open hex is found.
hop(g, neighbor, direction, travel) ==
    IF add(neighbor, travel) \in occupied(g)
    THEN Only({ hop(g, neighbor, direction, further) :
                  further \in { add(travel, direction) } })
    ELSE add(neighbor, travel)

RECURSIVE get_piece_moves(_, _, _)

\* get_piece_moves once the board without the piece is set up: on_hive,
\* pieces_after_pickup and spaces_after_pickup are the source's locals.
piece_moves_after_pickup(g, piece, start, on_hive, pieces_after_pickup, spaces_after_pickup) ==
    LET to(ends) == { Move(piece, end) : end \in ends }
        as_self(moves) == { Move(piece, turn.hex) : turn \in moves }
        neighbor_pieces ==
            { g.board[n] : n \in Range(neighbors(start)) \cap occupied(g) }
    IN  IF ~on_hive /\ ~check_one_hive_rule(g, pieces_after_pickup, start)
        THEN CASE piece.bug = "Pillbug" -> get_pillbug_tosses(g, start)
               [] piece.bug = "Mosquito" ->
                    IF \E np \in neighbor_pieces : np.bug = "Pillbug"
                    THEN get_pillbug_tosses(g, start) ELSE {}
               [] OTHER -> {}
        ELSE CASE piece.bug = "Ant" ->
                    to(pathfind(start, spaces_after_pickup,
                                pieces_after_pickup, None))
               [] piece.bug = "Beetle" ->
                    LET barriers == IF on_hive THEN {} ELSE pieces_after_pickup
                    IN  to(pathfind(start, spaces_after_pickup, barriers, Some(1))
                           \cup pathfind(start, pieces_after_pickup, {}, Some(1)))
               [] piece.bug = "Queen" ->
                    to(pathfind(start, spaces_after_pickup,
                                pieces_after_pickup, Some(1)))
               [] piece.bug = "Spider" ->
                    to(pathfind(start, spaces_after_pickup,
                                pieces_after_pickup, Some(3)))
               [] piece.bug = "Grasshopper" ->
                    to({ hop(g, n, sub(n, start), sub(n, start)) :
                           n \in Range(neighbors(start)) \cap occupied(g) })
               [] piece.bug = "Pillbug" ->
                    to(pathfind(start, spaces_after_pickup,
                                pieces_after_pickup, Some(1)))
                    \cup get_pillbug_tosses(g, start)
               [] piece.bug = "Ladybug" ->
                    to(UNION { Range(neighbors(top)) \ occupied(g) :
                                 top \in pathfind(start, pieces_after_pickup,
                                                  {}, Some(2)) })
               [] piece.bug = "Mosquito" ->
                    IF on_hive
                    THEN as_self(get_piece_moves(
                                     g, Piece_new("Beetle", piece.owner), start))
                    ELSE UNION {
                           IF np.bug = "Pillbug"
                           THEN to(pathfind(start, spaces_after_pickup,
                                            pieces_after_pickup, Some(1)))
                                \cup get_pillbug_tosses(g, start)
                           ELSE as_self(get_piece_moves(g, np, start)) :
                           np \in { q \in neighbor_pieces : q.bug # "Mosquito" } }

\* A version of the board where this piece is gone (picked up); if moving it
\* uncovers something in a stack, that piece is on the board.
get_piece_moves(g, piece, start) ==
    LET under == stack_at(g, start)
        on_hive == under # << >>
        board_without_piece ==
            IF on_hive
            THEN [h \in occupied(g) |->
                    IF h = start THEN Last(under) ELSE g.board[h]]
            ELSE [h \in occupied(g) \ {start} |-> g.board[h]]
    IN  UNION { UNION { piece_moves_after_pickup(
                            g, piece, start, on_hive, pieces_after_pickup,
                            spaces_after_pickup) :
                        spaces_after_pickup \in
                            { get_empty_neighbors(pieces_after_pickup) } } :
                pieces_after_pickup \in { DOMAIN board_without_piece } }

\* A faulty variant that C11 tells apart: the highest id of each kind.
lowest_ids_highest(g) ==
    LET mine == { p \in Range(g.unplayed_pieces) : p.owner = g.current_player }
    IN  [bug \in { p.bug : p \in mine } |->
           CHOOSE id \in { p.id : p \in { q \in mine : q.bug = bug } } :
             \A p \in mine : p.bug = bug => id >= p.id]

\* The lowest id of each kind among the current player's unplayed pieces.
lowest_ids(g) ==
    LET mine == { p \in Range(g.unplayed_pieces) : p.owner = g.current_player }
    IN  [bug \in { p.bug : p \in mine } |->
           CHOOSE id \in { p.id : p \in { q \in mine : q.bug = bug } } :
             \A p \in mine : p.bug = bug => id <= p.id]

\* A faulty variant that C9 tells apart: any unplayed piece of the player may be placed.
get_placeable_pieces_any(g) ==
    { piece \in Range(g.unplayed_pieces) : piece.owner = g.current_player }

get_placeable_pieces(g) ==
    LET player_queen == Piece_new("Queen", g.current_player)
    IN  \* a player's 4th turn (game turn 7 or 8) forces the queen out
        IF /\ turn_no(g) = 7 \/ turn_no(g) = 8
           /\ player_queen \in Range(g.unplayed_pieces)
        THEN { player_queen }
        ELSE UNION {
               { piece \in Range(g.unplayed_pieces) :
                   /\ turn_no(g) > 2 \/ piece.bug # "Queen"
                   /\ piece.bug \in DOMAIN lowest /\ piece.id = lowest[piece.bug]
                   /\ piece.owner = g.current_player } :
               lowest \in { lowest_ids(g) } }

\* A faulty variant that C3 tells apart: occupied hexes are open to placements too.
open_hexes_with_occupied(g) ==
    IF g.status = NotStarted THEN { ORIGIN }
    ELSE occupied(g) \cup get_empty_neighbors(occupied(g))

open_hexes(g) ==
    IF g.status = NotStarted THEN { ORIGIN }
    ELSE get_empty_neighbors(occupied(g))

\* A faulty variant that C10 tells apart: enemy pieces next to the hex are not looked at.
placements_anywhere(g) ==
    { Place(piece, hex) :
        piece \in get_placeable_pieces(g), hex \in open_hexes(g) }

\* The set of piece placements of get_valid_moves.
placements(g) ==
    { Place(piece, hex) :
        piece \in get_placeable_pieces(g),
        hex \in { h \in open_hexes(g) :
                    \* past turn 2, no hex adjacent to enemy pieces
                    IF turn_no(g) > 2
                    THEN \A enemy_hex \in occupied(g) :
                           g.board[enemy_hex].owner # g.current_player
                             => ~is_adj(enemy_hex, h)
                    ELSE TRUE } }

\* A faulty variant that C12 tells apart: pieces move whether or not the Queen
\* is in play.
movements_without_queen(g) ==
    UNION { get_piece_moves(g, g.board[start], start) :
              start \in { h \in occupied(g) :
                  /\ g.board[h].owner = g.current_player
                  /\ (g.turns # << >> /\ Last(g.turns).kind = "Move")
                       => g.board[h] # Last(g.turns).piece } }

\* The set of piece moves of get_valid_moves.
movements(g) ==
    IF Piece_new("Queen", g.current_player) \notin Range(g.unplayed_pieces)
    THEN UNION { get_piece_moves(g, g.board[start], start) :
                   start \in { h \in occupied(g) :
                       /\ g.board[h].owner = g.current_player
                       \* a piece moved a turn ago cannot move
                       /\ (g.turns # << >> /\ Last(g.turns).kind = "Move")
                            => g.board[h] # Last(g.turns).piece } }
    ELSE {}

\* A faulty variant that C8 tells apart: no Pass when there is nothing to do.
get_valid_moves_no_pass(g) == placements(g) \cup movements(g)

\* The Vec the source returns, as the set of its elements.
get_valid_moves(g) ==
    UNION { IF Cardinality(moves) = 0 THEN { Pass } ELSE moves :
            moves \in { placements(g) \cup movements(g) } }

\* First the board, then underneath any stacks.  Some(hex) or None.
get_hex_for_piece(g, piece) ==
    LET on_board == { h \in occupied(g) : g.board[h] = piece }
        in_stack == { h \in DOMAIN g.stacks : piece \in Range(g.stacks[h]) }
    IN  IF on_board # {} THEN Some(CHOOSE h \in on_board : TRUE)
        ELSE IF in_stack # {} THEN Some(CHOOSE h \in in_stack : TRUE)
        ELSE None

\* HashMap::insert
insert(map, key, value) ==
    [k \in DOMAIN map \cup {key} |-> IF k = key THEN value ELSE map[k]]

\* A faulty variant that C2 tells apart: the entry stays in the map.
remove_nothing(map, key) == map

\* HashMap::remove
remove(map, key) == [k \in DOMAIN map \ {key} |-> map[k]]

\* A faulty variant that C6 tells apart: five occupied neighbours are taken for a surrounded Queen.
surrounded_by_five(g, color) ==
    \E queen \in { get_hex_for_piece(g, Piece_new("Queen", color)) } :
        /\ queen # None
        /\ Cardinality({ i \in 1..6 :
               neighbors(queen[1])[i] \in occupied(g) }) >= 5

\* The colour's Queen is in play and n_neighbors == 6.
surrounded(g, color) ==
    \E queen \in { get_hex_for_piece(g, Piece_new("Queen", color)) } :
        /\ queen # None
        /\ Cardinality({ i \in 1..6 :
               neighbors(queen[1])[i] \in occupied(g) }) = 6

\* The status after the win check at the end of submit_turn_unchecked.
win_check(g) ==
    LET after_white == IF surrounded(g, White) THEN Win(other(White))
                       ELSE g.status
        after_black == IF surrounded(g, Black) THEN Win(other(Black))
                       ELSE after_white
        num_wins == (IF surrounded(g, White) THEN 1 ELSE 0)
                    + (IF surrounded(g, Black) THEN 1 ELSE 0)
    IN  IF num_wins = 2 THEN Draw ELSE after_black

\* The board, stacks and unplayed pieces after the turn, and whether one of
\* the assert!/unwrap of the match arm failed (the call then panics).
apply_turn(g, turn) ==
    CASE turn.kind = "Place" ->
           [board    |-> insert(g.board, turn.hex, turn.piece),
            stacks   |-> g.stacks,
            unplayed |-> SelectSeq(g.unplayed_pieces,
                                   LAMBDA p : p # turn.piece),
            panicked |-> turn.hex \in occupied(g)]
      [] turn.kind = "Move" ->
           Only({
               IF from = None \/ from[1] \notin occupied(g)
               THEN [board |-> g.board, stacks |-> g.stacks,
                     unplayed |-> g.unplayed_pieces, panicked |-> TRUE]
               ELSE
               LET stack == stack_at(g, from[1])
                   uncovers == from[1] \in DOMAIN g.stacks /\ stack # << >>
                   \* the piece leaves; what it uncovers moves onto the board
                   board1 == IF uncovers
                             THEN insert(g.board, from[1], Last(stack))
                             ELSE remove(g.board, from[1])
                   stacks1 == IF uncovers
                              THEN insert(g.stacks, from[1],
                                          SubSeq(stack, 1, Len(stack) - 1))
                              ELSE g.stacks
                   covers == turn.hex \in DOMAIN board1
                   \* the piece arrives; what it covers moves into the stack
                   stacks2 == IF covers
                              THEN insert(stacks1, turn.hex,
                                          Append(IF turn.hex \in DOMAIN stacks1
                                                 THEN stacks1[turn.hex]
                                                 ELSE << >>,
                                                 board1[turn.hex]))
                              ELSE stacks1
               IN  [board    |-> insert(board1, turn.hex, turn.piece),
                    stacks   |-> stacks2,
                    unplayed |-> g.unplayed_pieces,
                    panicked |-> FALSE] :
               from \in { get_hex_for_piece(g, turn.piece) } })
      [] OTHER ->
           [board |-> g.board, stacks |-> g.stacks,
            unplayed |-> g.unplayed_pieces, panicked |-> FALSE]

\* The state after the call and whether it panicked.
submit_turn_unchecked(g, turn) ==
    LET moved(applied) ==
            [g EXCEPT
               !.status = IF g.status = NotStarted THEN InProgress
                          ELSE g.status,
               !.current_player = other(g.current_player),
               !.board = applied.board,
               !.stacks = applied.stacks,
               !.unplayed_pieces = applied.unplayed,
               !.turns = Append(g.turns, turn)]
    IN  Only({ IF applied.panicked
               THEN [game |-> g, panicked |-> TRUE]
               ELSE Only({ [game |-> [after EXCEPT !.status = win_check(after)],
                            panicked |-> FALSE] :
                           after \in { moved(applied) } }) :
               applied \in { apply_turn(g, turn) } })

\* A faulty variant that C5 tells apart: only a Draw ends the game.
is_over_only_draw(g) == g.status = Draw

is_over(g) == g.status.kind = "Win" \/ g.status = Draw

\* A faulty variant that C4 tells apart: the turn is not looked up in get_valid_moves.
submit_turn_given_unchecked(g, turn, valid_moves) ==
    IF is_over(g) THEN [game |-> g, result |-> "GameOver"]
    ELSE Only({ [game |-> done.game,
                 result |-> IF done.panicked THEN "panic" ELSE "Ok"] :
                done \in { submit_turn_unchecked(g, turn) } })

\* A faulty variant that C32 tells apart: Pass too has to be among the valid moves.
submit_turn_given_strict(g, turn, valid_moves) ==
    IF is_over(g) THEN [game |-> g, result |-> "GameOver"]
    ELSE IF turn \notin valid_moves
         THEN [game |-> g, result |-> "InvalidMove"]
         ELSE Only({ [game |-> done.game,
                      result |-> IF done.panicked THEN "panic" ELSE "Ok"] :
                     done \in { submit_turn_unchecked(g, turn) } })

\* submit_turn, given the value of self.get_valid_moves(): the state after the
\* call and what it returned: "Ok", "GameOver", "InvalidMove", or "panic" when
\* the call does not return at all.
submit_turn_given(g, turn, valid_moves) ==
    IF is_over(g) THEN [game |-> g, result |-> "GameOver"]
    ELSE IF turn # Pass /\ turn \notin valid_moves
         THEN [game |-> g, result |-> "InvalidMove"]
         ELSE Only({ [game |-> done.game,
                      result |-> IF done.panicked THEN "panic" ELSE "Ok"] :
                     done \in { submit_turn_unchecked(g, turn) } })

submit_turn(g, turn) ==
    Only({ submit_turn_given(g, turn, valid_moves) :
           valid_moves \in { get_valid_moves(g) } })

-----------------------------------------------------------------------------
(* The recorded games.  Every turn of a record goes through submit_turn like *)
(* any other, so a record can only lead where the code lets it.              *)

\* test_win_condition: Black first, Base; ends with the black Queen surrounded.
win_condition_game ==
    << Place(P("Beetle", Black, 1), Hex(0, 0, 0)),
       Place(P("Spider", White, 1), Hex(-1, 1, 0)),
       Place(P("Queen", Black, 1), Hex(1, 0, -1)),
       Place(P("Queen", White, 1), Hex(-2, 2, 0)),
       Place(P("Grasshopper", Black, 1), Hex(1, -1, 0)),
       Place(P("Ant", White, 1), Hex(-1, 2, -1)),
       Place(P("Spider", Black, 1), Hex(2, -1, -1)),
       Move(P("Ant", White, 1), Hex(0, 1, -1)),
       Place(P("Ant", Black, 1), Hex(2, 0, -2)),
       Place(P("Ant", White, 2), Hex(-1, 2, -1)),
       Place(P("Ant", Black, 2), Hex(2, -2, 0)),
       Move(P("Ant", White, 2), Hex(1, 1, -2)) >>

\* test_pillbug: Black first, Base+P; a Pillbug throw, then Beetles climb.
pillbug_game ==
    << Place(P("Pillbug", Black, 1), Hex(0, 0, 0)),
       Place(P("Spider", White, 1), Hex(-1, 1, 0)),
       Place(P("Queen", Black, 1), Hex(1, 0, -1)),
       Place(P("Queen", White, 1), Hex(-1, 2, -1)),
       Move(P("Queen", Black, 1), Hex(0, 1, -1)),
       Move(P("Queen", White, 1), Hex(0, 2, -2)),
       Move(P("Spider", White, 1), Hex(1, -1, 0)),
       Move(P("Queen", White, 1), Hex(-1, 2, -1)),
       Place(P("Spider", Black, 1), Hex(1, 1, -2)),
       Move(P("Spider", White, 1), Hex(-1, 1, 0)),
       Place(P("Beetle", Black, 1), Hex(1, 0, -1)),
       Place(P("Beetle", White, 1), Hex(-2, 1, 1)),
       Move(P("Beetle", Black, 1), Hex(0, 1, -1)),
       Move(P("Beetle", White, 1), Hex(-1, 1, 0)) >>

\* test_mosquito (second game): White first, Base+PLM; a Mosquito throws as a Pillbug.
mosquito_game ==
    << Place(P("Ladybug", White, 1), Hex(0, 0, 0)),
       Place(P("Ladybug", Black, 1), Hex(0, 1, -1)),
       Place(P("Pillbug", White, 1), Hex(1, -1, 0)),
       Place(P("Mosquito", Black, 1), Hex(1, 1, -2)),
       Place(P("Spider", White, 1), Hex(2, -2, 0)),
       Place(P("Queen", Black, 1), Hex(0, 2, -2)),
       Place(P("Queen", White, 1), Hex(1, -2, 1)),
       Move(P("Mosquito", Black, 1), Hex(0, -1, 1)),
       Place(P("Spider", White, 2), Hex(1, -3, 2)),
       Move(P("Pillbug", White, 1), Hex(-1, 0, 1)) >>

\* test_mosquito (third game): White first, Base+PLM; a Mosquito climbs the hive.
mosquito_on_hive_game ==
    << Place(P("Mosquito", White, 1), Hex(0, 0, 0)),
       Place(P("Beetle", Black, 1), Hex(-1, 1, 0)),
       Place(P("Queen", White, 1), Hex(1, 0, -1)),
       Place(P("Queen", Black, 1), Hex(-1, 2, -1)),
       Move(P("Queen", White, 1), Hex(0, 1, -1)),
       Place(P("Ant", Black, 1), Hex(-2, 2, 0)),
       Move(P("Mosquito", White, 1), Hex(-1, 1, 0)),
       Place(P("Grasshopper", Black, 1), Hex(-3, 3, 0)),
       Move(P("Mosquito", White, 1), Hex(-1, 2, -1)),
       Move(P("Grasshopper", Black, 1), Hex(0, 0, 0)) >>

\* A game both Queens end surrounded in: White first, Base.
draw_game ==
    << Place(P("Grasshopper", White, 1), Hex(0, 0, 0)),
       Place(P("Grasshopper", Black, 1), Hex(1, -1, 0)),
       Place(P("Queen", White, 1), Hex(0, 1, -1)),
       Place(P("Queen", Black, 1), Hex(2, -1, -1)),
       Move(P("Queen", White, 1), Hex(1, 0, -1)),
       Place(P("Ant", Black, 1), Hex(3, -2, -1)),
       Place(P("Beetle", White, 1), Hex(1, 1, -2)),
       Place(P("Beetle", Black, 1), Hex(3, -1, -2)),
       Place(P("Grasshopper", White, 2), Hex(0, 1, -1)),
       Place(P("Spider", Black, 1), Hex(2, -2, 0)),
       Place(P("Ant", White, 1), Hex(2, 1, -3)),
       Place(P("Grasshopper", Black, 2), Hex(4, -2, -2)),
       Move(P("Ant", White, 1), Hex(2, 0, -2)) >>

\* A game Black passes in until its fourth turn: White first, Base.
blocked_queen_game ==
    << Place(P("Spider", White, 1), Hex(0, 0, 0)),
       Place(P("Ant", Black, 1), Hex(1, -1, 0)),
       Place(P("Queen", White, 1), Hex(-1, 1, 0)),
       Pass,
       Place(P("Ant", White, 1), Hex(-2, 2, 0)),
       Pass,
       Move(P("Ant", White, 1), Hex(2, -2, 0)) >>


records ==
    { [first_player |-> Black, game_type |-> Base,
       turns |-> win_condition_game],
      [first_player |-> Black, game_type |-> PLM(TRUE, FALSE, FALSE),
       turns |-> pillbug_game],
      [first_player |-> White, game_type |-> PLM(TRUE, TRUE, TRUE),
       turns |-> mosquito_game],
      [first_player |-> White, game_type |-> PLM(TRUE, TRUE, TRUE),
       turns |-> mosquito_on_hive_game],
      [first_player |-> White, game_type |-> Base,
       turns |-> draw_game],
      [first_player |-> White, game_type |-> Base,
       turns |-> blocked_queen_game] }

\* Turns handed to submit_turn although get_valid_moves does not offer them:
\* the current player's Queen on ORIGIN (test_make_invalid_first_move) and
\* the black Beetle to the north-east of ORIGIN (test_win_condition).
illegal_turns(g) ==
    { Place(Piece_new("Queen", g.current_player), ORIGIN),
      Move(Piece_new("Beetle", Black), ne(ORIGIN)) }

\* Every Place and every Move of a piece of the game to ORIGIN, to an
\* occupied hex or to a hex next to an occupied one.
all_turns(g) ==
    LET hexes == { ORIGIN } \cup occupied(g) \cup get_empty_neighbors(occupied(g))
        pieces == Range(get_initial_pieces(g.game_type))
    IN  { Place(piece, hex) : piece \in pieces, hex \in hexes }
        \cup { Move(piece, hex) : piece \in pieces, hex \in hexes }

-----------------------------------------------------------------------------
(* The state machine *)

\* The GameState value the variables hold.
self ==
    [unplayed_pieces |-> unplayed_pieces,
     board           |-> board,
     stacks          |-> stacks,
     turns           |-> turns,
     current_player  |-> current_player,
     status          |-> status,
     game_type       |-> game_type]

\* No submit_turn call yet.
NoTurn == [kind |-> "None"]

Init ==
    \E record \in records :
        LET g == new_with_type(record.first_player, record.game_type)
        IN  /\ unplayed_pieces = g.unplayed_pieces
            /\ board = g.board
            /\ stacks = g.stacks
            /\ turns = g.turns
            /\ current_player = g.current_player
            /\ status = g.status
            /\ game_type = g.game_type
            /\ first_player = record.first_player
            /\ submitted = NoTurn
            /\ result = "none"
            /\ n_accepted = 0
            /\ script = record.turns
            /\ free = MaxFree
            /\ engine_game = None
            /\ search_tree = None
            /\ search = None
            /\ mm = None

\* One call self.submit_turn(turn); valid_moves is self.get_valid_moves().
Call(turn, valid_moves) ==
    \E r \in { submit_turn_given(self, turn, valid_moves) } :
        /\ result # "panic"
        /\ unplayed_pieces' = r.game.unplayed_pieces
        /\ board' = r.game.board
        /\ stacks' = r.game.stacks
        /\ turns' = r.game.turns
        /\ current_player' = r.game.current_player
        /\ status' = r.game.status
        /\ game_type' = r.game.game_type
        /\ first_player' = first_player
        /\ submitted' = turn
        /\ result' = r.result
        /\ n_accepted' = IF r.result = "Ok" THEN n_accepted + 1 ELSE n_accepted
        /\ engine_game' = engine_game
        /\ UNCHANGED << search_tree, search, mm >>

\* The next turn of the record is submitted.
Replay ==
    /\ script # << >>
    /\ \E valid_moves \in { get_valid_moves(self) } :
           Call(Head(script), valid_moves)
    /\ script' = Tail(script)
    /\ free' = free

\* The players leave the record: any turn get_valid_moves offers, or Pass.
Explore ==
    /\ free > 0
    /\ \E valid_moves \in { get_valid_moves(self) } :
           \E turn \in (valid_moves \cup { Pass })
                         \ (IF script # << >> THEN { Head(script) } ELSE {}) :
               Call(turn, valid_moves)
    /\ script' = << >>
    /\ free' = free - 1

\* A turn get_valid_moves does not offer is submitted.
Probe ==
    /\ \E valid_moves \in { get_valid_moves(self) } :
           \E turn \in illegal_turns(self) \ valid_moves :
               Call(turn, valid_moves)
    /\ UNCHANGED << script, free >>

Next == Replay \/ Explore \/ Probe

Spec == Init /\ [][Next]_vars

-----------------------------------------------------------------------------
(* The properties *)

\* C1 (as stated): in every state reached from a new game by accepted
\* submit_turn calls, all_contiguous of the occupied hexes is true.
C1_OneHiveAlways == all_contiguous(DOMAIN board)

\* C1 (amended): the occupied hexes are contiguous in every reachable state
\* whose board is not empty; on the empty board (a new game, or only Pass
\* turns so far) all_contiguous is false.
C1_OneHive == all_contiguous(DOMAIN board) <=> DOMAIN board # {}

\* C1: an accepted Move on a board of at least five pieces.
C1_Witness ==
    /\ result = "Ok"
    /\ submitted.kind = "Move"
    /\ Cardinality(DOMAIN board) >= 5

\* C2: every piece of the initial set of the game type appears exactly once
\* across board, stacks and unplayed_pieces, and nothing else appears there.
C2_PieceConservation ==
    LET initial == get_initial_pieces(game_type)
        in_unplayed(piece) ==
            { i \in DOMAIN unplayed_pieces : unplayed_pieces[i] = piece }
        on_board(piece) == { h \in DOMAIN board : board[h] = piece }
        slots == UNION { { << h, i >> : i \in DOMAIN stacks[h] } :
                         h \in DOMAIN stacks }
        in_stacks(piece) == { hi \in slots : stacks[hi[1]][hi[2]] = piece }
    IN  /\ \A piece \in Range(initial) :
               Cardinality(in_unplayed(piece)) + Cardinality(on_board(piece))
                 + Cardinality(in_stacks(piece)) = 1
        /\ Len(unplayed_pieces) + Cardinality(DOMAIN board) + Cardinality(slots)
             = Len(initial)

\* C2: an accepted Move has put a piece on top of another while pieces are
\* still unplayed.
C2_Witness ==
    /\ result = "Ok"
    /\ submitted.kind = "Move"
    /\ submitted.hex \in DOMAIN stacks
    /\ stacks[submitted.hex] # << >>
    /\ unplayed_pieces # << >>

\* C3 (as stated): in every reachable state, submit_turn returns Ok, with no
\* assertion or unwrap failing, for every turn get_valid_moves returns.
C3_ValidMovesSucceedAlways ==
    \A valid_moves \in { get_valid_moves(self) } :
        \A turn \in valid_moves :
            submit_turn_given(self, turn, valid_moves).result = "Ok"

\* C3 (amended): in every reachable state whose status is not Win or Draw,
\* submit_turn returns Ok, with no assertion or unwrap failing, for every turn
\* get_valid_moves returns; in a Win or Draw state get_valid_moves still
\* returns turns and submit_turn returns Err(GameOver) for each of them.
C3_ValidMovesSucceed ==
    \A valid_moves \in { get_valid_moves(self) } :
        \A turn \in valid_moves :
            submit_turn_given(self, turn, valid_moves).result
              = IF status.kind \in { "Win", "Draw" } THEN "GameOver" ELSE "Ok"

\* C3: a game in progress where a Move from get_valid_moves was just accepted
\* and get_valid_moves offers both placements and moves.
C3_Witness ==
    /\ result = "Ok"
    /\ submitted.kind = "Move"
    /\ status = InProgress
    /\ \E valid_moves \in { get_valid_moves(self) } :
           /\ \E turn \in valid_moves : turn.kind = "Move"
           /\ \E turn \in valid_moves : turn.kind = "Place"

\* C4 (as stated): submit_turn with a turn that is not Pass and not in
\* get_valid_moves returns Err(InvalidMove) and leaves the game unchanged.
C4_InvalidMoveAlways ==
    \A valid_moves \in { get_valid_moves(self) } :
        \A turn \in (all_turns(self) \cup illegal_turns(self)) \ valid_moves :
            submit_turn_given(self, turn, valid_moves)
              = [game |-> self, result |-> "InvalidMove"]

\* C4 (amended): while the status is not Win or Draw, submit_turn with a turn
\* that is not Pass and not in get_valid_moves returns Err(InvalidMove); in a
\* Win or Draw state it returns Err(GameOver); either way board, stacks,
\* unplayed_pieces, turns, current_player and status are unchanged.
C4_InvalidMove ==
    \A valid_moves \in { get_valid_moves(self) } :
        \A turn \in (all_turns(self) \cup illegal_turns(self)) \ valid_moves :
            submit_turn_given(self, turn, valid_moves)
              = [game |-> self,
                 result |-> IF status.kind \in { "Win", "Draw" }
                            THEN "GameOver" ELSE "InvalidMove"]

\* C4: a turn that is neither Pass nor in get_valid_moves was just rejected
\* with InvalidMove in a game with pieces on the board.
C4_Witness ==
    /\ result = "InvalidMove"
    /\ submitted.kind # "Pass"
    /\ submitted \notin get_valid_moves(self)
    /\ DOMAIN board # {}

\* C5: once status is Win or Draw every submit_turn call, Pass included,
\* returns Err(GameOver) and changes nothing of the game.
C5_TerminalAbsorbing ==
    [][status.kind \in { "Win", "Draw" }
         => result' = "GameOver" /\ gameVars' = gameVars]_vars

\* C5: a Pass was just answered with GameOver in a finished game.
C5_Witness ==
    /\ status.kind \in { "Win", "Draw" }
    /\ submitted = Pass
    /\ result = "GameOver"

\* C6: status is Win(c) iff exactly one Queen has all six neighbouring hexes
\* occupied and it is the Queen of the colour opposite to c; status is Draw
\* iff both Queens have; otherwise status is NotStarted or InProgress.
C6_WinCondition ==
    LET queen_hexes(color) ==
            { h \in DOMAIN board : board[h] = P("Queen", color, 1) }
            \cup { h \in DOMAIN stacks :
                     P("Queen", color, 1) \in Range(stacks[h]) }
        enclosed(color) ==
            \E h \in queen_hexes(color) :
                \A n \in { ne(h), e(h), se(h), sw(h), w(h), nw(h) } :
                    n \in DOMAIN board
    IN  /\ status = Win(White) <=> enclosed(Black) /\ ~enclosed(White)
        /\ status = Win(Black) <=> enclosed(White) /\ ~enclosed(Black)
        /\ status = Draw <=> enclosed(White) /\ enclosed(Black)
        /\ status \in { NotStarted, InProgress, Draw, Win(White), Win(Black) }

\* C6: an accepted turn has ended the game in a Draw.
C6_Witness ==
    /\ result = "Ok"
    /\ status = Draw

\* C7: after n accepted turns of a game whose first player is F,
\* turns.len() = n, turn_no() = n + 1, and current_player is F when n is even
\* and the other player when n is odd, Pass turns included; a rejected turn
\* changes neither turns nor current_player.
C7_TurnBookkeeping ==
    /\ [](/\ Len(turns) = n_accepted
          /\ turn_no(self) = n_accepted + 1
          /\ (n_accepted % 2 = 0) <=> (current_player = first_player))
    /\ [][result' \in { "InvalidMove", "GameOver" }
            => turns' = turns /\ current_player' = current_player]_vars

\* C7: a turn was just rejected after at least three accepted turns, one of
\* them a Pass.
C7_Witness ==
    /\ result = "InvalidMove"
    /\ n_accepted >= 3
    /\ \E i \in DOMAIN turns : turns[i] = Pass

\* C8: get_valid_moves is never empty; Pass is in it iff it is exactly [Pass];
\* and it is exactly [Pass] iff the current player has no placement and no
\* movement.
C8_PassOnlyWhenStuck ==
    \A valid_moves \in { get_valid_moves(self) } :
        /\ valid_moves # {}
        /\ Pass \in valid_moves <=> valid_moves = { Pass }
        /\ valid_moves = { Pass }
             <=> placements(self) = {} /\ movements(self) = {}

\* C8: pieces are on the board, the current player's Queen is unplayed and
\* get_valid_moves is exactly [Pass].
C8_Witness ==
    /\ DOMAIN board # {}
    /\ P("Queen", current_player, 1) \in Range(unplayed_pieces)
    /\ get_valid_moves(self) = { Pass }

\* C9 (as stated): on turns 1 and 2 get_valid_moves has no Place of a Queen;
\* on turns 7 and 8, with the current player's Queen unplayed, every turn of
\* get_valid_moves is a Place of that Queen.
C9_QueenPlacementAlways ==
    \A valid_moves \in { get_valid_moves(self) } :
        /\ turn_no(self) \in { 1, 2 }
             => \A turn \in valid_moves :
                    ~(turn.kind = "Place" /\ turn.piece.bug = "Queen")
        /\ (/\ turn_no(self) \in { 7, 8 }
            /\ P("Queen", current_player, 1) \in Range(unplayed_pieces))
             => \A turn \in valid_moves :
                    /\ turn.kind = "Place"
                    /\ turn.piece = P("Queen", current_player, 1)

\* C9 (amended): on turns 1 and 2 get_valid_moves has no Place of a Queen; on
\* turns 7 and 8, with the current player's Queen unplayed, get_valid_moves is
\* either exactly [Pass] (no hex is open to the player) or holds only Places
\* of that Queen.
C9_QueenPlacement ==
    \A valid_moves \in { get_valid_moves(self) } :
        /\ turn_no(self) \in { 1, 2 }
             => \A turn \in valid_moves :
                    ~(turn.kind = "Place" /\ turn.piece.bug = "Queen")
        /\ (/\ turn_no(self) \in { 7, 8 }
            /\ P("Queen", current_player, 1) \in Range(unplayed_pieces))
             => \/ valid_moves = { Pass }
                \/ \A turn \in valid_moves :
                       /\ turn.kind = "Place"
                       /\ turn.piece = P("Queen", current_player, 1)

\* C9: turn 7 or 8, the current player's Queen is unplayed with other pieces
\* of theirs, and get_valid_moves offers placements.
C9_Witness ==
    /\ turn_no(self) \in { 7, 8 }
    /\ P("Queen", current_player, 1) \in Range(unplayed_pieces)
    /\ \E piece \in Range(unplayed_pieces) :
           piece.owner = current_player /\ piece.bug # "Queen"
    /\ \E turn \in get_valid_moves(self) : turn.kind = "Place"

\* C10: while status is NotStarted the only placement hex is ORIGIN;
\* afterwards every Place(p, h) of get_valid_moves has h empty and next to an
\* occupied hex, and from turn 3 on h is next to no hex whose top piece is the
\* opponent's.
C10_PlacementLocation ==
    LET next_to(a, b) == b \in { ne(a), e(a), se(a), sw(a), w(a), nw(a) }
        place_hexes ==
            { turn.hex : turn \in { t \in get_valid_moves(self) :
                                      t.kind = "Place" } }
    IN  IF status = NotStarted THEN place_hexes = { ORIGIN }
        ELSE \A h \in place_hexes :
                 /\ h \notin DOMAIN board
                 /\ \E o \in DOMAIN board : next_to(h, o)
                 /\ turn_no(self) >= 3
                      => \A o \in DOMAIN board :
                             board[o].owner # current_player => ~next_to(h, o)

\* C10: from turn 3 on, get_valid_moves offers a placement while some empty
\* hex next to the hive touches an opponent's piece.
C10_Witness ==
    /\ turn_no(self) >= 3
    /\ \E turn \in get_valid_moves(self) : turn.kind = "Place"
    /\ \E o \in DOMAIN board :
           /\ board[o].owner # current_player
           /\ { ne(o), e(o), se(o), sw(o), w(o), nw(o) } \ DOMAIN board # {}

\* C11: every Place(p, _) of get_valid_moves has p owned by current_player with
\* the lowest id of its kind among that player's unplayed pieces; and when a
\* piece (kind, owner, id = k) is on the board or in a stack, so is every
\* piece (kind, owner, id < k).
C11_OrderedPlacement ==
    LET in_play == Range(get_initial_pieces(game_type)) \ Range(unplayed_pieces)
    IN  /\ \A turn \in get_valid_moves(self) :
               turn.kind = "Place"
                 => /\ turn.piece.owner = current_player
                    /\ turn.piece \in Range(unplayed_pieces)
                    /\ \A q \in Range(unplayed_pieces) :
                           (q.owner = current_player /\ q.bug = turn.piece.bug)
                             => turn.piece.id <= q.id
        /\ \A p \in in_play :
               \A q \in Range(get_initial_pieces(game_type)) :
                   (q.bug = p.bug /\ q.owner = p.owner /\ q.id < p.id)
                     => q \in in_play

\* C11: a piece with id 2 was just placed and get_valid_moves offers the
\* current player a Place of a piece with id 2 or more.
C11_Witness ==
    /\ result = "Ok"
    /\ submitted.kind = "Place"
    /\ submitted.piece.id = 2
    /\ \E turn \in get_valid_moves(self) :
           turn.kind = "Place" /\ turn.piece.id >= 2

\* C12: while the current player's Queen is in unplayed_pieces,
\* get_valid_moves returns no Move turn and submit_turn accepts none.
C12_NoMoveBeforeQueen ==
    P("Queen", current_player, 1) \in Range(unplayed_pieces)
      => \A valid_moves \in { get_valid_moves(self) } :
             /\ \A turn \in valid_moves : turn.kind # "Move"
             /\ \A turn \in all_turns(self) \cup illegal_turns(self) :
                    turn.kind = "Move"
                      => submit_turn_given(self, turn, valid_moves).result # "Ok"

\* C12: a Move was just refused while the current player, Queen unplayed, has
\* a piece on the board with an empty hex next to it.
C12_Witness ==
    /\ result = "InvalidMove"
    /\ submitted.kind = "Move"
    /\ P("Queen", current_player, 1) \in Range(unplayed_pieces)
    /\ \E h \in DOMAIN board :
           /\ board[h].owner = current_player
           /\ { ne(h), e(h), se(h), sw(h), w(h), nw(h) } \ DOMAIN board # {}

-----------------------------------------------------------------------------
(* Hex::pathfind on its own: the arguments are drawn from the hexes around   *)
(* ORIGIN, the call puts what it returns into result.                        *)

\* The longest exact distance asked for.
MaxSteps == 3

\* ORIGIN and its six neighbours.
pathfind_world == { ORIGIN } \cup Range(neighbors(ORIGIN))

\* The arguments of a pathfind call: self, hexes, barriers, dist.
pathfind_args ==
    [start : { ORIGIN, e(ORIGIN) },
     hexes : SUBSET pathfind_world,
     barriers : SUBSET pathfind_world,
     dist : { None } \cup { Some(k) : k \in 0..MaxSteps }]

PathInit ==
    LET g == new_with_type(White, Base)
    IN  /\ unplayed_pieces = g.unplayed_pieces
        /\ board = g.board
        /\ stacks = g.stacks
        /\ turns = g.turns
        /\ current_player = g.current_player
        /\ status = g.status
        /\ game_type = g.game_type
        /\ first_player = White
        /\ n_accepted = 0
        /\ script = << >>
        /\ free = 0
        /\ submitted \in pathfind_args
        /\ result = None
        /\ engine_game = None
        /\ search_tree = None
        /\ search = None
        /\ mm = None

\* start.pathfind(&hexes, &barriers, dist)
PathCall ==
    /\ result = None
    /\ result' = Some(pathfind(submitted.start, submitted.hexes,
                               submitted.barriers, submitted.dist))
    /\ UNCHANGED << gameVars, first_player, n_accepted, script, free,
                    submitted, engine_game, search_tree, search, mm >>

PathNext == PathCall

PathSpec == PathInit /\ [][PathNext]_vars

\* C14: pathfind(start, walkable, barriers, d) is {start} for d = Some(0);
\* for d = Some(k), k >= 1, the hexes that end a k-step path from start that
\* steps only onto walkable hexes, never revisits a hex and, when barriers is
\* not empty, takes a step only if exactly one of its two pincers is a
\* barrier; for d = None the hexes other than start that end such a path of
\* any length >= 1.
C14_Pathfind ==
    LET start == submitted.start
        walkable == submitted.hexes
        barriers == submitted.barriers
        around(h) == { ne(h), e(h), se(h), sw(h), w(h), nw(h) }
        \* the two hexes next to both ends of a step
        pincers(h, to) == around(h) \cap around(to)
        step(h, to) ==
            /\ to \in around(h)
            /\ to \in walkable
            /\ barriers # {}
                 => Cardinality(pincers(h, to) \cap barriers) = 1
        \* the paths of k steps, each the sequence of the hexes it visits
        RECURSIVE paths(_)
        paths(k) ==
            IF k = 0 THEN { << start >> }
            ELSE UNION { { Append(path, to) :
                             to \in { h \in walkable \ Range(path) :
                                        step(Last(path), h) } } :
                         path \in paths(k - 1) }
        ends(k) == { Last(path) : path \in paths(k) }
        longest == Cardinality(walkable)
    IN  result # None
          => result[1] =
               IF submitted.dist = Some(0) THEN { start }
               ELSE IF submitted.dist # None THEN ends(submitted.dist[1])
               ELSE UNION { ends(k) : k \in 1..longest }

\* C14: a call for exactly three steps with barriers found a hex, while a
\* walkable hex next to start could not be stepped onto.
C14_Witness ==
    /\ result # None
    /\ submitted.dist = Some(3)
    /\ submitted.barriers # {}
    /\ result[1] # {}
    /\ \E h \in submitted.hexes :
           /\ is_adj(submitted.start, h)
           /\ h \notin pathfind(submitted.start, submitted.hexes,
                                submitted.barriers, Some(1))

----------------------------------------------------------------------------
\* Text.  A String is the sequence of its chars, each a one-character string;
\* the argument a message is formatted with is left out of error messages,
\* whose text is kept as one piece.

\* What a Result or a call ends with: Ok(value), Err(error), or a panic.
Ok(v) == [kind |-> "Ok", value |-> v]

Err(error) == [kind |-> "Err", error |-> error]

Panic == [kind |-> "panic"]

\* enum Error, with the conversions from &str and String
ParserError(msg) == [kind |-> "ParserError", msg |-> msg]

EngineError(msg) == [kind |-> "EngineError", msg |-> msg]

\* The chars outside ASCII that inputs are drawn from, two bytes each in UTF-8.
non_ascii == { "é" }

len_utf8(c) == IF c \in non_ascii THEN 2 ELSE 1

\* str::len, in bytes
str_len(s) ==
    LET bytes[k \in 0..Len(s)] == IF k = 0 THEN 0 ELSE bytes[k - 1] + len_utf8(s[k])
    IN  bytes[Len(s)]

\* str::split_at(mid): Some of the two halves, None where it panics because
\* mid is not on a char boundary.
split_at(s, mid) ==
    IF \E k \in 0..Len(s) : str_len(SubSeq(s, 1, k)) = mid
    THEN Some(Only({ << SubSeq(s, 1, k), SubSeq(s, k + 1, Len(s)) >> :
                       k \in { j \in 0..Len(s) : str_len(SubSeq(s, 1, j)) = mid } }))
    ELSE None

starts_with(s, prefix) ==
    Len(s) >= Len(prefix) /\ SubSeq(s, 1, Len(prefix)) = prefix

\* str::strip_prefix, where the prefix is there
strip_prefix(s, prefix) == SubSeq(s, Len(prefix) + 1, Len(s))

is_whitespace(c) == c \in { " ", "\t" }

\* str::split_whitespace: the non-empty runs of chars that are not whitespace
split_whitespace(s) ==
    LET starts == { i \in 1..Len(s) :
                      ~is_whitespace(s[i]) /\ (i = 1 \/ is_whitespace(s[i - 1])) }
    IN  [k \in 1..Cardinality(starts) |->
            LET i == CHOOSE i \in starts : Cardinality({ j \in starts : j <= i }) = k
                n == CHOOSE n \in i..Len(s) :
                        /\ n = Len(s) \/ is_whitespace(s[n + 1])
                        /\ \A m \in i..n : ~is_whitespace(s[m])
            IN  SubSeq(s, i, n)]

\* u8 as decimal text
digits == << "0", "1", "2", "3", "4", "5", "6", "7", "8", "9" >>

RECURSIVE u8_to_string(_)
u8_to_string(n) ==
    IF n < 10 THEN << digits[n + 1] >>
    ELSE Append(u8_to_string(n \div 10), digits[(n % 10) + 1])

\* impl fmt::Display for Piece
Display_Piece(piece) ==
    LET color == IF piece.owner = White THEN "w" ELSE "b"
        name == CASE piece.bug = "Ant" -> "A"
                  [] piece.bug = "Beetle" -> "B"
                  [] piece.bug = "Ladybug" -> "L"
                  [] piece.bug = "Pillbug" -> "P"
                  [] piece.bug = "Spider" -> "S"
                  [] piece.bug = "Queen" -> "Q"
                  [] piece.bug = "Mosquito" -> "M"
                  [] piece.bug = "Grasshopper" -> "G"
    IN  IF name \in { "P", "L", "M", "Q" }
        THEN << color, name >>
        ELSE << color, name >> \o u8_to_string(piece.id)

\* A faulty variant that C15 tells apart: the reference piece is always named
\* on the left of the direction mark.
get_turn_string_suffix(turn, g) ==
    IF turn.kind = "Pass" THEN << "p", "a", "s", "s" >>
    ELSE IF turn.hex \in DOMAIN g.board
    THEN Display_Piece(turn.piece) \o << " " >> \o Display_Piece(g.board[turn.hex])
    ELSE LET ns == neighbors(turn.hex)
             found == { i \in 1..6 : ns[i] \in DOMAIN g.board }
         IN  IF found = {} THEN Display_Piece(turn.piece)
             ELSE LET i == CHOOSE i \in found : \A j \in found : i <= j
                      s == sub(turn.hex, ns[i])
                  IN  Display_Piece(turn.piece) \o << " " >>
                        \o Display_Piece(g.board[ns[i]])
                        \o (CASE s \in { w(ORIGIN), e(ORIGIN) } -> << "-" >>
                              [] s \in { nw(ORIGIN), se(ORIGIN) } -> << "\\" >>
                              [] OTHER -> << "/" >>)

\* get_turn_string(turn, game): the move in UHP notation
get_turn_string(turn, g) ==
    IF turn.kind = "Pass" THEN << "p", "a", "s", "s" >>
    ELSE IF turn.hex \in DOMAIN g.board
    THEN Display_Piece(turn.piece) \o << " " >> \o Display_Piece(g.board[turn.hex])
    ELSE LET ns == neighbors(turn.hex)
             \* find_map: the first neighbor, in the order of neighbors(), on the board
             found == { i \in 1..6 : ns[i] \in DOMAIN g.board }
         IN  IF found = {} THEN Display_Piece(turn.piece)
             ELSE LET i == CHOOSE i \in found : \A j \in found : i <= j
                      neighbor_piece == Display_Piece(g.board[ns[i]])
                      target == Display_Piece(turn.piece) \o << " " >>
                      s == sub(turn.hex, ns[i])
                  IN  CASE s = w(ORIGIN) -> target \o << "-" >> \o neighbor_piece
                        [] s = nw(ORIGIN) -> target \o << "\\" >> \o neighbor_piece
                        [] s = sw(ORIGIN) -> target \o << "/" >> \o neighbor_piece
                        [] s = e(ORIGIN) -> target \o neighbor_piece \o << "-" >>
                        [] s = ne(ORIGIN) -> target \o neighbor_piece \o << "/" >>
                        [] s = se(ORIGIN) -> target \o neighbor_piece \o << "\\" >>

\* parse_piece_string(input): Ok(piece) or Err
parse_piece_string(input) ==
    IF Len(input) < 1 THEN Err(ParserError("empty piece string"))
    ELSE IF input[1] \notin { "w", "b" } THEN Err(ParserError("unknown player"))
    ELSE IF Len(input) < 2 THEN Err(ParserError("no bug character found"))
    ELSE IF input[2] \notin { "A", "B", "G", "L", "M", "P", "Q", "S" }
    THEN Err(ParserError("unknown piece"))
    ELSE LET player == IF input[1] = "w" THEN White ELSE Black
             bug == CASE input[2] = "A" -> "Ant"
                      [] input[2] = "B" -> "Beetle"
                      [] input[2] = "G" -> "Grasshopper"
                      [] input[2] = "L" -> "Ladybug"
                      [] input[2] = "M" -> "Mosquito"
                      [] input[2] = "P" -> "Pillbug"
                      [] input[2] = "Q" -> "Queen"
                      [] input[2] = "S" -> "Spider"
         IN  IF Len(input) >= 3
             THEN \* the third char alone is parsed; what follows it is not read
                  IF \E d \in 0..9 : digits[d + 1] = input[3]
                  THEN Ok(P(bug, player, CHOOSE d \in 0..9 : digits[d + 1] = input[3]))
                  ELSE Err(ParserError("failed to parse id"))
             ELSE Ok(Piece_new(bug, player))

\* parse_move_string(input, board, stacks): Ok(turn), Err, or a panic of split_at
parse_move_string(input, board_, stacks_) ==
    IF input = << "p", "a", "s", "s" >> THEN Ok(Pass)
    ELSE
    LET tokens == split_whitespace(input)
        piece == parse_piece_string(tokens[1])
        dest_str == tokens[2]
        is_mark(c) == c \in { "-", "/", "\\" }
        \* (dest_piece, direction), with the ? of parse_piece_string
        halves == IF dest_str[1] \in { "w", "b" }
                  THEN IF \E i \in 1..Len(dest_str) : is_mark(dest_str[i])
                       THEN split_at(dest_str, str_len(dest_str) - 1)
                       ELSE Some(<< dest_str, << >> >>)
                  ELSE split_at(dest_str, 1)
        east == dest_str[1] \in { "w", "b" }
        piece_str == IF east THEN halves[1][1] ELSE halves[1][2]
        mark == IF east THEN halves[1][2] ELSE halves[1][1]
        dest_piece == parse_piece_string(piece_str)
        on_board == { h \in DOMAIN board_ : board_[h] = dest_piece.value }
        in_stacks == { h \in DOMAIN stacks_ : dest_piece.value \in Range(stacks_[h]) }
        target_hex == IF on_board # {} THEN CHOOSE h \in on_board : TRUE
                      ELSE CHOOSE h \in in_stacks : TRUE
        known == IF east THEN mark \in { << >>, << "-" >>, << "/" >>, << "\\" >> }
                 ELSE mark \in { << "-" >>, << "/" >>, << "\\" >> }
        dest_hex == CASE east /\ mark = << "-" >> -> e(target_hex)
                      [] east /\ mark = << "/" >> -> ne(target_hex)
                      [] east /\ mark = << "\\" >> -> se(target_hex)
                      [] ~east /\ mark = << "-" >> -> w(target_hex)
                      [] ~east /\ mark = << "/" >> -> sw(target_hex)
                      [] ~east /\ mark = << "\\" >> -> nw(target_hex)
                      [] OTHER -> target_hex
    IN  IF Len(tokens) = 0 THEN Err(ParserError("empty input"))
        ELSE IF piece.kind = "Err" THEN piece
        ELSE IF Len(tokens) < 2 THEN Ok(Place(piece.value, ORIGIN))
        ELSE IF halves = None THEN Panic
        ELSE IF dest_piece.kind = "Err" THEN dest_piece
        ELSE IF on_board = {} /\ in_stacks = {}
        THEN Err(ParserError("target piece not present on board"))
        ELSE IF ~known THEN Err(ParserError("unrecognized direction"))
        ELSE IF \E h \in DOMAIN board_ : board_[h] = piece.value
        THEN Ok(Move(piece.value, dest_hex))
        ELSE Ok(Place(piece.value, dest_hex))

----------------------------------------------------------------------------
\* C15: for every turn submit_turn accepts, parse_move_string applied to
\* get_turn_string of the turn and the state before it, with that state's
\* board and stacks, returns the turn itself: same variant, piece and hex.
C15_MoveNotationRoundTrip ==
    [][n_accepted' = n_accepted + 1
         => parse_move_string(get_turn_string(submitted', self), board, stacks)
              = Ok(submitted')]_vars

\* The turn just accepted moved a piece onto an occupied hex: the piece it
\* covered is in the stack there, and the notation named that piece.
C15_Witness ==
    /\ result = "Ok"
    /\ submitted.kind = "Move"
    /\ submitted.hex \in DOMAIN stacks
    /\ stacks[submitted.hex] # << >>
    /\ board[submitted.hex] = submitted.piece

----------------------------------------------------------------------------
\* GameString: GameTypeString;GameStateString;TurnString[;MoveString[;...]]

\* str::split on any char of seps: the pieces between them, empty ones included
split(s, seps) ==
    LET cuts == { 0, Len(s) + 1 } \cup { i \in 1..Len(s) : s[i] \in seps }
        nth(k) == CHOOSE c \in cuts : Cardinality({ d \in cuts : d < c }) = k - 1
    IN  [k \in 1..(Cardinality(cuts) - 1) |-> SubSeq(s, nth(k) + 1, nth(k + 1) - 1)]

\* [String]::join(sep)
join(strs, sep) ==
    LET joined[k \in 0..Len(strs)] ==
            IF k = 0 THEN << >>
            ELSE IF k = 1 THEN strs[1]
            ELSE joined[k - 1] \o sep \o strs[k]
    IN  joined[Len(strs)]

\* usize as decimal text
usize_to_string(n) == u8_to_string(n)

\* impl fmt::Display for Color
Display_Color(color) == IF color = White THEN << "W", "h", "i", "t", "e" >> ELSE << "B", "l", "a", "c", "k" >>

\* impl fmt::Display for GameType
Display_GameType(game_type_) ==
    IF game_type_.kind = "Base" THEN << "B", "a", "s", "e" >>
    ELSE << "B", "a", "s", "e", "+" >> \o (IF game_type_.pillbug THEN << "P" >> ELSE << >>)
                 \o (IF game_type_.ladybug THEN << "L" >> ELSE << >>)
                 \o (IF game_type_.mosquito THEN << "M" >> ELSE << >>)

\* impl fmt::Display for GameStatus
Display_GameStatus(status_) ==
    CASE status_.kind = "NotStarted" -> << "N", "o", "t", "S", "t", "a", "r", "t", "e", "d" >>
      [] status_.kind = "InProgress" -> << "I", "n", "P", "r", "o", "g", "r", "e", "s", "s" >>
      [] status_.kind = "Draw" -> << "D", "r", "a", "w" >>
      [] status_.kind = "Win" -> Display_Color(status_.player) \o << "W", "i", "n", "s" >>

RECURSIVE replay_turn_strings(_, _, _, _)
\* The loop of Display for GameState: Ok of the turns in notation, each written
\* against the replay so far, or a panic of the assert.
replay_turn_strings(replay, turns_, i, strs) ==
    IF i > Len(turns_) THEN Ok(strs)
    ELSE Only({ IF r.result = "Ok"
                THEN replay_turn_strings(r.game, turns_, i + 1, next_strs)
                ELSE Panic :
                r \in { submit_turn(replay, turns_[i]) },
                next_strs \in { Append(strs, get_turn_string(turns_[i], replay)) } })

\* A faulty variant that C23 tells apart: the count rounds up.
Display_turn_ceil(g) ==
    Display_Color(g.current_player) \o << "[" >>
        \o usize_to_string(turn_no(g) \div 2 + 1) \o << "]" >>

\* The TurnString of Display for GameState
Display_turn(g) ==
    Display_Color(g.current_player) \o << "[" >>
        \o usize_to_string((turn_no(g) + 1) \div 2) \o << "]" >>

\* impl fmt::Display for GameState: Ok(text), or a panic of the assert
Display_GameState(g) ==
    Only({ IF g.turns # << >> /\ g.turns[1].kind = "Place"
           THEN Only({ IF strs.kind = "Ok"
                       THEN Ok(head \o << ";" >> \o join(strs.value, << ";" >>))
                       ELSE Panic :
                       strs \in { replay_turn_strings(
                                    new_with_type(g.turns[1].piece.owner, g.game_type),
                                    g.turns, 1, << >>) } })
           ELSE Ok(head) :
           head \in { Display_GameType(g.game_type) \o << ";" >>
                        \o Display_GameStatus(g.status) \o << ";" >> \o Display_turn(g) } })

\* parse_first_player(input, n_turns)
parse_first_player(input, n_turns) ==
    LET token == split(input, { "[", "]" })[1]
    IN  IF token \notin { << "W", "h", "i", "t", "e" >>, << "B", "l", "a", "c", "k" >> }
        THEN Err(ParserError("unexpected player string"))
        ELSE LET current_player_ == IF token = << "W", "h", "i", "t", "e" >> THEN White ELSE Black
             IN  IF n_turns % 2 = 0 THEN Ok(current_player_)
                 ELSE Ok(other(current_player_))

\* parse_game_status(input)
parse_game_status(input) ==
    CASE input = << "N", "o", "t", "S", "t", "a", "r", "t", "e", "d" >> -> Ok(NotStarted)
      [] input = << "I", "n", "P", "r", "o", "g", "r", "e", "s", "s" >> -> Ok(InProgress)
      [] input = << "D", "r", "a", "w" >> -> Ok(Draw)
      [] input = << "W", "h", "i", "t", "e", "W", "i", "n", "s" >> -> Ok(Win(White))
      [] input = << "B", "l", "a", "c", "k", "W", "i", "n", "s" >> -> Ok(Win(Black))
      [] OTHER -> Err(ParserError("unrecognized GameStatus"))

\* parse_game_type(input)
parse_game_type(input) ==
    IF input = << "B", "a", "s", "e" >> THEN Ok(Base)
    ELSE IF starts_with(input, << "B", "a", "s", "e", "+" >>)
    THEN LET expansion == strip_prefix(input, << "B", "a", "s", "e", "+" >>)
         IN  IF \E i \in 1..Len(expansion) : expansion[i] \notin { "P", "L", "M" }
             THEN Err(ParserError("unrecognized expansion"))
             ELSE Ok(PLM("P" \in Range(expansion), "L" \in Range(expansion),
                         "M" \in Range(expansion)))
    ELSE Err(ParserError("unrecognized GameType"))

RECURSIVE parse_turns(_, _, _)
\* The loop of parse_game_string: each token is parsed against the game so far
\* and submitted.
parse_turns(g, tokens, i) ==
    IF i > Len(tokens) THEN Ok(g)
    ELSE Only({ IF turn.kind # "Ok" THEN turn
                ELSE Only({ IF r.result = "Ok" THEN parse_turns(r.game, tokens, i + 1)
                            ELSE IF r.result = "panic" THEN Panic
                            ELSE Err(ParserError("invalid turn")) :
                            r \in { submit_turn(g, turn.value) } }) :
                turn \in { parse_move_string(tokens[i], g.board, g.stacks) } })

\* parse_game_string(input): Ok(game), Err, or a panic
parse_game_string(input) ==
    Only({ Only({ IF game_type_.kind = "Err" THEN game_type_
      ELSE IF Len(tokens) < 2 THEN Err(ParserError("empty GameState"))
      ELSE Only({ IF game_status.kind = "Err" THEN game_status
        ELSE IF Len(tokens) < 3 THEN Err(ParserError("empty TurnString"))
        ELSE Only({ IF first_player_.kind = "Err" THEN first_player_
          ELSE Only({ IF game.kind # "Ok" THEN game
                      ELSE IF game.value.status # game_status.value
                      THEN Err(ParserError("game status incorrect"))
                      ELSE game :
                      game \in { parse_turns(
                          new_with_type(first_player_.value, game_type_.value),
                          SubSeq(tokens, 4, Len(tokens)), 1) } }) :
          first_player_ \in { parse_first_player(tokens[3], Len(tokens) - 3) } }) :
        game_status \in { parse_game_status(tokens[2]) } }) :
      game_type_ \in { parse_game_type(tokens[1]) } }) :
    tokens \in { split(input, { ";" }) } })

----------------------------------------------------------------------------
\* C16: in every state reached through accepted submit_turn calls, the game
\* string of the state parses, and parse_game_string returns a game with the
\* same game_type, turns, board, stacks, unplayed pieces, current_player and
\* status.
C16_GameStringRoundTrip ==
    \E text \in { Display_GameState(self) } :
        /\ text.kind = "Ok"
        /\ parse_game_string(text.value) = Ok(self)

----------------------------------------------------------------------------
\* Engine.  self.game is None or Some(game); options.first_player is White
\* and both players' AI is the Monte Carlo tree search.  A handler's outcome
\* is [game, out]: the game it leaves in the engine and what it returns,
\* Ok(text), Err(error) or a panic.

\* EngineOptions::default().first_player
options_first_player == White

Outcome(eg, out) == [game |-> eg, out |-> out]

\* impl From<TurnError> for Error
Error_from_TurnError(err) == ParserError(err)

\* #[derive(Debug)] on Error; the message is one piece of the text
Debug_Error(error) ==
    (IF error.kind = "ParserError" THEN << "P", "a", "r", "s", "e", "r", "E", "r", "r", "o", "r" >> ELSE << "E", "n", "g", "i", "n", "e", "E", "r", "r", "o", "r" >>)
        \o << "(", "\"" >> \o << error.msg >> \o << "\"", ")" >>

\* impl From<EngineResult<String>> for Output, From<String> for Output: the
\* Option<String> of Output.text
Output_from(res) ==
    IF res.kind = "Ok" THEN Some(res.value)
    ELSE Some(<< "e", "r", "r", " " >> \o Debug_Error(res.error))

\* impl ToString for Output
Output_to_string(output) ==
    IF output # None THEN output[1] \o << "\n" >> \o << "o", "k" >> ELSE << "o", "k" >>

\* str::parse::<usize>: an optional + and then decimal digits, at least one
parse_usize(s) ==
    LET body == IF s # << >> /\ s[1] = "+" THEN Tail(s) ELSE s
        value[k \in 0..Len(body)] ==
            IF k = 0 THEN 0
            ELSE 10 * value[k - 1] + (CHOOSE d \in 0..9 : digits[d + 1] = body[k])
    IN  IF body # << >> /\ \A i \in 1..Len(body) : body[i] \in Range(digits)
        THEN Ok(value[Len(body)])
        ELSE Err(ParserError("please specify a number"))

\* Engine::get_game_string
get_game_string(eg) ==
    IF eg = None THEN Outcome(eg, Err(EngineError("game not created yet")))
    ELSE Outcome(eg, Display_GameState(eg[1]))

\* Engine::handle_newgame
handle_newgame(eg, newgame) ==
    Only({ IF next.kind = "panic" THEN Outcome(eg, Panic)
           ELSE IF next.value = None
           THEN Outcome(None, Err(ParserError("unrecognized newgame arg")))
           ELSE get_game_string(next.value) :
           next \in {
             IF newgame = << "n", "e", "w", "g", "a", "m", "e" >>
             THEN Ok(Some(new_with_type(options_first_player, Base)))
             ELSE IF starts_with(newgame, << "n", "e", "w", "g", "a", "m", "e", " " >>)
             THEN Only({ IF typed.kind = "Ok"
                         THEN Ok(Some(new_with_type(options_first_player, typed.value)))
                         ELSE Only({ IF parsed.kind = "Ok" THEN Ok(Some(parsed.value))
                                     ELSE IF parsed.kind = "panic" THEN Panic
                                     ELSE Ok(eg) :
                                     parsed \in { parse_game_string(arg) } }) :
                         arg \in { strip_prefix(newgame, << "n", "e", "w", "g", "a", "m", "e", " " >>) },
                         typed \in { parse_game_type(strip_prefix(newgame, << "n", "e", "w", "g", "a", "m", "e", " " >>)) } })
             ELSE Ok(eg) } })

\* Engine::handle_turn
handle_turn(eg, input) ==
    IF eg = None THEN Outcome(eg, Err(EngineError("game not created yet")))
    ELSE Only({ IF turn.kind = "panic" THEN Outcome(eg, Panic)
                ELSE IF turn.kind = "Err" THEN Outcome(eg, turn)
                ELSE Only({ IF r.result = "panic" THEN Outcome(Some(r.game), Panic)
                            ELSE IF r.result # "Ok"
                            THEN Outcome(eg, Err(Error_from_TurnError(r.result)))
                            ELSE Outcome(Some(r.game), Display_GameState(r.game)) :
                            r \in { submit_turn(eg[1], turn.value) } }) :
                turn \in { parse_move_string(strip_prefix(input, << "p", "l", "a", "y", " " >>),
                                             eg[1].board, eg[1].stacks) } })

RECURSIVE replay_turns(_, _, _)
\* The loop of handle_undo: Ok(game), or a panic of the assert
replay_turns(g, turns_, i) ==
    IF i > Len(turns_) THEN Ok(g)
    ELSE Only({ IF r.result = "Ok" THEN replay_turns(r.game, turns_, i + 1)
                ELSE Panic :
                r \in { submit_turn(g, turns_[i]) } })

\* Engine::handle_undo
handle_undo(eg, input) ==
    IF eg = None THEN Outcome(eg, Err(EngineError("game not created yet")))
    ELSE Only({
      IF n_turns.kind = "Err" THEN Outcome(eg, n_turns)
      ELSE IF n_turns.value > Len(old_game.turns)
      THEN Outcome(eg, Err(EngineError("cannot undo more turns than exist")))
      \* mem::take leaves None in self.game from here on
      ELSE IF old_game.turns # << >> /\ old_game.turns[1].kind = "Place"
      THEN Only({ IF new_game.kind = "Ok"
                  THEN Outcome(Some(new_game.value), Display_GameState(new_game.value))
                  ELSE Outcome(None, Panic) :
                  new_game \in { replay_turns(
                      new_with_type(old_game.turns[1].piece.owner, old_game.game_type),
                      SubSeq(old_game.turns, 1, Len(old_game.turns) - n_turns.value),
                      1) } })
      ELSE \* unreachable!()
           Outcome(None, Panic) :
      old_game \in { eg[1] },
      n_turns \in { parse_usize(strip_prefix(input, << "u", "n", "d", "o", " " >>)) } })

\* Engine::get_info
get_info == Some(<< "i", "d", " ", "B", "a", "z", "i", "n", "g", "a", " ", "v", "1", ".", "0" >> \o << "\n" >> \o << "M", "o", "s", "q", "u", "i", "t", "o", ";", "L", "a", "d", "y", "b", "u", "g", ";", "P", "i", "l", "l", "b", "u", "g" >>)

\* Engine::get_valid_moves.  The moves are joined in the order of the Vec, which
\* follows the iteration of the board HashMap; the list is kept as one piece.
Engine_get_valid_moves(eg) ==
    IF eg = None THEN Outcome(eg, Err(EngineError("game not created yet")))
    ELSE Outcome(eg, Ok(<< "valid moves" >>))

\* Engine::get_best_move, each outcome the search can end with: it returns the
\* last action of a child of the root, one of the root's possible actions, and
\* unwraps None when the root has no child because the game is over.
get_best_move(eg) ==
    IF eg = None THEN { Outcome(eg, Err(EngineError("game not created yet"))) }
    ELSE IF is_over(eg[1]) THEN { Outcome(eg, Panic) }
    ELSE { Outcome(eg, Ok(get_turn_string(best_move, eg[1]))) :
           best_move \in get_valid_moves(eg[1]) }

\* Engine::handle_command: the outcomes [game, out], out the String returned
\* or a panic
handle_command(eg, input) ==
    LET \* .into(): the Output a handler's result becomes
        into_Output(o) ==
            Outcome(o.game, IF o.out.kind = "panic" THEN Panic
                            ELSE Ok(Output_from(o.out)))
    IN
    { Outcome(r.game, IF r.out.kind = "panic" THEN Panic
                      ELSE Ok(Output_to_string(r.out.value))) :
      r \in
        IF starts_with(input, << "n", "e", "w", "g", "a", "m", "e" >>)
        THEN { into_Output(o) : o \in { handle_newgame(eg, input) } }
        ELSE IF starts_with(input, << "p", "l", "a", "y", " " >>) \/ input = << "p", "a", "s", "s" >>
        THEN { into_Output(o) :
               o \in { handle_turn(eg, IF input = << "p", "a", "s", "s" >> THEN << "p", "l", "a", "y", " ", "p", "a", "s", "s" >> ELSE input) } }
        ELSE IF input = << "v", "a", "l", "i", "d", "m", "o", "v", "e", "s" >>
        THEN { into_Output(o) : o \in { Engine_get_valid_moves(eg) } }
        ELSE IF input = << "u", "n", "d", "o" >> \/ starts_with(input, << "u", "n", "d", "o", " " >>)
        THEN { into_Output(o) :
               o \in { handle_undo(eg, IF input = << "u", "n", "d", "o" >> THEN << "u", "n", "d", "o", " ", "1" >> ELSE input) } }
        ELSE IF input = << "o", "p", "t", "i", "o", "n", "s" >> THEN { Outcome(eg, Ok(None)) }
        ELSE IF input = << "i", "n", "f", "o" >> THEN { Outcome(eg, Ok(get_info)) }
        ELSE IF starts_with(input, << "b", "e", "s", "t", "m", "o", "v", "e" >>)
        THEN { into_Output(o) : o \in get_best_move(eg) }
        ELSE { Outcome(eg, Ok(Some(<< "u", "n", "r", "e", "c", "o", "g", "n", "i", "z", "e", "d", " ", "c", "o", "m", "m", "a", "n", "d", " " >> \o input))) } }

----------------------------------------------------------------------------
\* The engine reads one command line after another (cli-engine); a panic ends
\* the process.  submitted is the line, result what handle_command returned.

\* How long a game in progress may grow through play commands.
MaxTurns == 4

\* No command yet.
NoCommand == [kind |-> "None"]

newgame_commands ==
    { << "n", "e", "w", "g", "a", "m", "e" >>,
      << "n", "e", "w", "g", "a", "m", "e", " ", "B", "a", "s", "e", "+", "M" >>,
      << "n", "e", "w", "g", "a", "m", "e", " ", "B", "a", "s", "e", ";", "I", "n", "P", "r", "o", "g", "r", "e", "s", "s", ";", "W", "h", "i", "t", "e", "[", "3", "]", ";", "w", "S", "1", ";", "b", "G", "1", " ", "-", "w", "S", "1", ";", "w", "A", "1", " ", "w", "S", "1", "/", ";", "b", "G", "2", " ", "/", "b", "G", "1" >>,
      << "n", "e", "w", "g", "a", "m", "e", " ", "B", "a", "s", "e", ";", "I", "n", "P", "r", "o", "g", "r", "e", "s", "s", ";", "B", "l", "a", "c", "k", "[", "1", "]" >>,
      << "n", "e", "w", "g", "a", "m", "e", " ", "C", "h", "e", "s", "s" >>,
      << "n", "e", "w", "g", "a", "m", "e", " ", "B", "a", "s", "e", ";", "I", "n", "P", "r", "o", "g", "r", "e", "s", "s", ";", "W", "h", "i", "t", "e", "[", "1", "]", ";", "w", "Q" >> }

\* Move strings: turns of the game above, legal or not where they are
\* submitted, and strings parse_move_string rejects.
move_strings ==
    { << "w", "S", "1" >>, << "b", "G", "1", " ", "-", "w", "S", "1" >>, << "w", "A", "1", " ", "w", "S", "1", "/" >>, << "b", "G", "2", " ", "/", "b", "G", "1" >>, << "p", "a", "s", "s" >>, << "b", "Q" >>, << "w", "B", "1", " ", "w", "S", "1" >>,
      << "w", "Z", "1" >>, << "x", "S", "1" >>, << "w", "S", "1", " ", "b", "A", "3", "-" >>, << "w", "S", "1", " ", "w", "S", "1", "-", "x" >>, << "w", "S", "1", " ", "?", "w", "S", "1" >>, << "w", "S", "1", " ", "é", "w", "S", "1" >>, << >> }

play_commands == { << "p", "l", "a", "y", " " >> \o m : m \in move_strings } \cup { << "p", "a", "s", "s" >> }

undo_commands == { << "u", "n", "d", "o" >>, << "u", "n", "d", "o", " ", "0" >>, << "u", "n", "d", "o", " ", "1" >>, << "u", "n", "d", "o", " ", "2" >>, << "u", "n", "d", "o", " ", "9" >>, << "u", "n", "d", "o", " ", "x" >> }

query_commands == { << "v", "a", "l", "i", "d", "m", "o", "v", "e", "s" >>, << "o", "p", "t", "i", "o", "n", "s" >>, << "i", "n", "f", "o" >>, << "b", "e", "s", "t", "m", "o", "v", "e" >> }

unknown_commands == { << >>, << "h", "e", "l", "l", "o" >>, << "p", "l", "a", "y" >>, << "p", "a", "s", "s", "s" >>, << "u", "n", "d", "o", "1" >>, << "N", "e", "w", "g", "a", "m", "e" >> }

EngineInit ==
    LET g == new_with_type(options_first_player, Base)
    IN  /\ unplayed_pieces = g.unplayed_pieces
        /\ board = g.board
        /\ stacks = g.stacks
        /\ turns = g.turns
        /\ current_player = g.current_player
        /\ status = g.status
        /\ game_type = g.game_type
        /\ first_player = options_first_player
        /\ n_accepted = 0
        /\ script = << >>
        /\ free = 0
        /\ submitted = << >>
        /\ result = NoCommand
        /\ engine_game = None
        /\ search_tree = None
        /\ search = None
        /\ mm = None

\* The lines the engine may be handed; the history of a game is capped.
commands(eg) ==
    newgame_commands \cup undo_commands \cup query_commands \cup unknown_commands
      \cup (IF eg # None => Len(eg[1].turns) < MaxTurns THEN play_commands ELSE {})

\* One line handed to engine.handle_command
Command ==
    /\ result.kind # "panic"
    /\ \E input \in commands(engine_game) :
           /\ \E o \in handle_command(engine_game, input) :
                  /\ engine_game' = o.game
                  /\ result' = o.out
           /\ submitted' = input
    /\ UNCHANGED << gameVars, first_player, n_accepted, script, free,
                    search_tree, search, mm >>

EngineNext == Command

EngineSpec == EngineInit /\ [][EngineNext]_vars

----------------------------------------------------------------------------
\* C17: in a game with n accepted turns, undo N with 1 <= N <= n leaves the
\* engine with the game that the first n - N turns give from a fresh game of
\* the same type and first player, and answers with that game's string; and
\* sending the N undone turns again as play commands, each in the notation of
\* the game it is played in, gives a game with the game string the engine had
\* before the undo.
C17_UndoThenReplay ==
    [][LET first_player_of(g) ==
             IF Len(g.turns) % 2 = 0 THEN g.current_player
             ELSE other(g.current_player)
           RECURSIVE play_again(_, _, _)
           play_again(eg, turns_, i) ==
             IF i > Len(turns_) \/ eg = None THEN eg
             ELSE Only({ Only({ IF o.out.kind = "panic" THEN None
                                ELSE play_again(o.game, turns_, i + 1) :
                                o \in handle_command(eg, line) }) :
                         line \in { << "p", "l", "a", "y", " " >>
                                      \o get_turn_string(turns_[i], eg[1]) } })
       IN  \A N \in 1..(MaxTurns + 1) :
             (/\ engine_game # None
              /\ \/ submitted' = << "u", "n", "d", "o", " " >> \o usize_to_string(N)
                 \/ N = 1 /\ submitted' = << "u", "n", "d", "o" >>
              /\ N <= Len(engine_game[1].turns))
             => \E old \in { engine_game[1] } :
                  \E kept \in { replay_turns(
                                  new_with_type(first_player_of(old), old.game_type),
                                  SubSeq(old.turns, 1, Len(old.turns) - N), 1) } :
                    /\ kept.kind = "Ok"
                    /\ result'.kind = "Ok"
                    /\ engine_game' = Some(kept.value)
                    /\ Display_GameState(kept.value).kind = "Ok"
                    /\ result'.value
                         = Display_GameState(kept.value).value \o << "\n" >> \o << "o", "k" >>
                    /\ \E again \in { play_again(engine_game', old.turns,
                                                 Len(old.turns) - N + 1) } :
                         /\ again # None
                         /\ Display_GameState(again[1]) = Display_GameState(old)]_vars

\* C18: in every engine state that holds a game, a fresh one with no turns
\* included, undo 0 answers with the current game string followed by ok and
\* leaves the game as it was.
C18_UndoZeroIsNoOp ==
    [][(engine_game # None /\ submitted' = << "u", "n", "d", "o", " ", "0" >>)
         => /\ engine_game' = engine_game
            /\ result'.kind = "Ok"
            /\ \E text \in { Display_GameState(engine_game[1]) } :
                 /\ text.kind = "Ok"
                 /\ result'.value = text.value \o << "\n" >> \o << "o", "k" >>]_vars

\* C19: a play command that fails, by a parser error or by an engine error,
\* is answered with a first line that begins with "err " and then the line
\* ok, and leaves the engine's game unchanged.
C19_FailedPlay ==
    [][LET move_string == strip_prefix(submitted', << "p", "l", "a", "y", " " >>)
           turn == parse_move_string(move_string, engine_game[1].board,
                                     engine_game[1].stacks)
           applied == /\ engine_game # None
                      /\ turn.kind = "Ok"
                      /\ submit_turn(engine_game[1], turn.value).result = "Ok"
       IN  (starts_with(submitted', << "p", "l", "a", "y", " " >>) /\ ~applied)
             => /\ engine_game' = engine_game
                /\ result'.kind = "Ok"
                /\ \E lines \in { split(result'.value, { "\n" }) } :
                     /\ Len(lines) = 2
                     /\ starts_with(lines[1], << "e", "r", "r", " " >>)
                     /\ lines[2] = << "o", "k" >>]_vars

\* C20: every input line that is not a recognized command is answered with
\* an error response, whose first line begins with "err " and whose last
\* line is ok, and leaves the engine state unchanged.
C20_UnrecognizedCommand ==
    [][submitted' \in unknown_commands
         => /\ engine_game' = engine_game
            /\ result'.kind = "Ok"
            /\ \E lines \in { split(result'.value, { "\n" }) } :
                 /\ Len(lines) >= 2
                 /\ starts_with(lines[1], << "e", "r", "r", " " >>)
                 /\ lines[Len(lines)] = << "o", "k" >>]_vars

\* C21: newgame with an argument that is neither a game type nor a game
\* string (bad syntax, an illegal move in the replay, a status that does not
\* match the replayed one) is answered with an err response and leaves the
\* engine's game unchanged, when no game exists and when one exists.
C21_BadNewGame ==
    [][LET arg == strip_prefix(submitted', << "n", "e", "w", "g", "a", "m", "e", " " >>)
       IN  (/\ starts_with(submitted', << "n", "e", "w", "g", "a", "m", "e", " " >>)
            /\ parse_game_type(arg).kind = "Err"
            /\ parse_game_string(arg).kind = "Err")
             => /\ engine_game' = engine_game
                /\ result'.kind = "Ok"
                /\ starts_with(result'.value, << "e", "r", "r", " " >>)]_vars

\* C22: handle_command is total: every command, in every engine state that
\* earlier commands can reach, returns a response whose last line is ok
\* and never aborts.
C22_HandleCommandTotal ==
    [][/\ result'.kind = "Ok"
       /\ \E lines \in { split(result'.value, { "\n" }) } :
            lines[Len(lines)] = << "o", "k" >>]_vars

\* C23 (as stated): the turn field of the game string of a state with n
\* accepted turns is the current player followed by [m], m = ceil(n/2) + 1.
C23_TurnFieldCeil ==
    \E text \in { Display_GameState(self) } :
        /\ text.kind = "Ok"
        /\ \E field \in { split(split(text.value, { ";" })[3], { "[", "]" }) } :
             /\ field[1] = Display_Color(current_player)
             /\ parse_usize(field[2]) = Ok((Len(turns) + 1) \div 2 + 1)

\* C23 (amended): the turn field of the game string of a state with n
\* accepted turns is the current player followed by [m], m = floor(n/2) + 1:
\* the number of the round being played, which both players share.
C23_TurnField ==
    \E text \in { Display_GameState(self) } :
        /\ text.kind = "Ok"
        /\ \E field \in { split(split(text.value, { ";" })[3], { "[", "]" }) } :
             /\ field[1] = Display_Color(current_player)
             /\ parse_usize(field[2]) = Ok(Len(turns) \div 2 + 1)

\* An odd number of turns has been accepted, White's second turn the last.
C23_Witness ==
    /\ Len(turns) = 3
    /\ current_player = Black
    /\ Display_GameState(self).kind = "Ok"

\* C24: in every reachable state, for every well-formed move string whose
\* reference piece can be resolved, parse_move_string returns a Place of the
\* named piece iff that piece is in unplayed_pieces and a Move of it
\* otherwise, whether the piece is unplayed, on top of the board or covered
\* inside a stack.
C24_PlaceIffUnplayed ==
    LET covered == UNION { Range(stacks[h]) : h \in DOMAIN stacks }
        references == Range(board) \cup covered
    IN  \A piece \in Range(get_initial_pieces(game_type)), reference \in references :
            \A move_string \in
                 { Display_Piece(piece) \o << " " >> \o Display_Piece(reference),
                   Display_Piece(piece) \o << " " >> \o Display_Piece(reference) \o << "-" >>,
                   Display_Piece(piece) \o << " ", "/" >> \o Display_Piece(reference) } :
                \E turn \in { parse_move_string(move_string, board, stacks) } :
                    /\ turn.kind = "Ok"
                    /\ turn.value.piece = piece
                    /\ turn.value.kind
                         = IF piece \in Range(unplayed_pieces) THEN "Place" ELSE "Move"

-----------------------------------------------------------------------------
(* Monte Carlo tree search: ai/src/mcts.rs.  The game searched is the       *)
(* GameTree of its tests, whose select_action is a random choice.           *)

\* How many iterations a search may be asked for.
MaxIterations == 7

\* get_3_move_connect_2_tree(): each path that ends the game, and whether
\* player A has won there
get_3_move_connect_2_tree ==
    [moves       |-> << "1", "2", "3" >>,
     child_nodes |-> (<< "1", "2", "3" >> :> FALSE) @@ (<< "1", "3", "2" >> :> TRUE)
                       @@ (<< "2", "1", "3" >> :> TRUE) @@ (<< "2", "3", "1" >> :> TRUE)
                       @@ (<< "3", "2", "1" >> :> FALSE) @@ (<< "3", "1", "2" >> :> TRUE),
     path_so_far |-> << >>]

\* impl MonteCarloSearchable for GameTree
GameTree_get_terminal_value(game, player) ==
    IF game.path_so_far \in DOMAIN game.child_nodes
    THEN Some(game.child_nodes[game.path_so_far] /\ player)
    ELSE None

GameTree_get_possible_actions(game) ==
    SelectSeq(game.moves, LAMBDA c : c \notin Range(game.path_so_far))

GameTree_get_last_action(game) ==
    IF game.path_so_far = << >> THEN None ELSE Some(Last(game.path_so_far))

GameTree_apply_action(game, action) ==
    [game EXCEPT !.path_so_far = Append(@, action)]

\* actions.choose(&mut rng).unwrap(): every action the generator can pick;
\* the unwrap panics when there is none
GameTree_select_action(actions) ==
    IF actions = << >> THEN { Panic } ELSE { Ok(action) : action \in Range(actions) }

GameTree_current_player(game) == Len(game.path_so_far) % 2 = 0

\* StatsNode::new
StatsNode_new(idx, game, parent) ==
    [n_visits           |-> 0,
     total_wins         |-> 0,
     unexplored_actions |-> GameTree_get_possible_actions(game),
     game               |-> game,
     idx                |-> idx,
     parent             |-> parent,
     children           |-> << >>]

\* MCSearchTree::new; the arena is indexed from 0 as in the source
MCSearchTree_new(game, maxi_player, options) ==
    [arena       |-> [idx \in { 0 } |-> StatsNode_new(0, game, None)],
     options     |-> options,
     maxi_player |-> maxi_player]

\* MCSearchTree::is_maxi_move
is_maxi_move(tree, node) ==
    GameTree_current_player(tree.arena[node].game) = tree.maxi_player

\* The exploration term of ucb1,
\* ((parent.n_visits as f64).ln() / (child.n_visits + 1) as f64).sqrt(),
\* in units of 1/10000 and rounded down, by [parent.n_visits][child.n_visits];
\* ln is the natural logarithm times 10^8.
exploration ==
    LET ln == << 0, 69314718, 109861229, 138629436, 160943791, 179175947,
                 194591015, 207944154 >>
        sqrt(x) == CHOOSE r \in 0..10200 : r * r <= x /\ x < (r + 1) * (r + 1)
    IN  [parent_visits \in DOMAIN ln |->
           [child_visits \in DOMAIN ln |-> sqrt(ln[parent_visits] \div (child_visits + 1))]]

\* MCSearchTree::ucb1 in units of 1/10000.  The f64 result is NaN when the
\* child has no visit (0.0 / 0.0) or the parent has none (the square root of
\* a negative number); two values compare as the f64 values do for all the
\* visit counts of the table.
ucb1(tree, parent_i, child_i) ==
    LET parent == tree.arena[parent_i]
        child == tree.arena[child_i]
        exploitation == (child.total_wins * 10000) \div child.n_visits
    IN  IF child.n_visits = 0 \/ parent.n_visits = 0
        THEN [nan |-> TRUE, value |-> 0]
        ELSE [nan   |-> FALSE,
              value |-> IF is_maxi_move(tree, parent_i)
                        THEN exploitation + tree.options.exploration_coefficient
                                              * exploration[parent.n_visits][child.n_visits]
                        ELSE exploitation - tree.options.exploration_coefficient
                                              * exploration[parent.n_visits][child.n_visits]]

\* MCSearchTree::best_child: Ok(child), or the panic of split_first().unwrap()
\* when the parent has no child
best_child(tree, parent_i) ==
    LET children == tree.arena[parent_i].children
        is_better(ucb, best_ucb) ==
            /\ ~ucb.nan
            /\ ~best_ucb.nan
            /\ IF is_maxi_move(tree, parent_i) THEN ucb.value > best_ucb.value
                                               ELSE ucb.value < best_ucb.value
        best[k \in 1..Len(children)] ==
            IF k = 1 THEN [ucb |-> ucb1(tree, parent_i, children[1]), child |-> children[1]]
            ELSE Only({ IF is_better(ucb, so_far.ucb)
                        THEN [ucb |-> ucb, child |-> children[k]]
                        ELSE so_far :
                        so_far \in { best[k - 1] },
                        ucb \in { ucb1(tree, parent_i, children[k]) } })
    IN  IF children = << >> THEN Panic ELSE Ok(best[Len(children)].child)

\* A faulty variant that C34 tells apart: the chosen action stays unexplored.
expand_keep(tree, node) ==
    LET new_idx == Cardinality(DOMAIN tree.arena)
        v == tree.arena[node]
        expanded(chosen_action) ==
            [i \in DOMAIN tree.arena \cup { new_idx } |->
               IF i = new_idx
               THEN StatsNode_new(new_idx, GameTree_apply_action(v.game, chosen_action),
                                  Some(node))
               ELSE IF i = node
               THEN [v EXCEPT !.children = Append(@, new_idx)]
               ELSE tree.arena[i]]
    IN  { IF chosen.kind = "panic" THEN Panic
          ELSE [kind |-> "Ok", tree |-> [tree EXCEPT !.arena = expanded(chosen.value)],
                v |-> new_idx] :
          chosen \in GameTree_select_action(v.unexplored_actions) }

\* MCSearchTree::expand: one outcome [tree, v] for each action select_action
\* may choose
expand(tree, node) ==
    LET new_idx == Cardinality(DOMAIN tree.arena)
        v == tree.arena[node]
        expanded(chosen_action) ==
            [i \in DOMAIN tree.arena \cup { new_idx } |->
               IF i = new_idx
               THEN StatsNode_new(new_idx, GameTree_apply_action(v.game, chosen_action),
                                  Some(node))
               ELSE IF i = node
               THEN [v EXCEPT !.unexplored_actions =
                                  SelectSeq(@, LAMBDA action : action # chosen_action),
                              !.children = Append(@, new_idx)]
               ELSE tree.arena[i]]
    IN  { IF chosen.kind = "panic" THEN Panic
          ELSE [kind |-> "Ok", tree |-> [tree EXCEPT !.arena = expanded(chosen.value)],
                v |-> new_idx] :
          chosen \in GameTree_select_action(v.unexplored_actions) }

RECURSIVE select(_, _)

\* MCSearchTree::select from node v: the outcomes [tree, v], or a panic
select(tree, v) ==
    IF GameTree_get_terminal_value(tree.arena[v].game, tree.maxi_player) # None
    THEN { [kind |-> "Ok", tree |-> tree, v |-> v] }
    ELSE IF tree.arena[v].unexplored_actions # << >>
    THEN expand(tree, v)
    ELSE UNION { IF next.kind = "panic" THEN { Panic } ELSE select(tree, next.value) :
                 next \in { best_child(tree, v) } }

\* MonteCarloSearchable::simulate: every Option<bool> the random walk can
\* return, with the clone `simulation` as the walk leaves it, or a panic of
\* select_action
simulate(game, max_depth, maxi_player) ==
    LET RECURSIVE walk(_, _)
        walk(simulation, n_turns) ==
            IF n_turns > max_depth
            THEN { [kind |-> "Ok", value |-> None, simulation |-> simulation] }
            ELSE IF GameTree_get_terminal_value(simulation, maxi_player) # None
            THEN { [kind |-> "Ok",
                    value |-> GameTree_get_terminal_value(simulation, maxi_player),
                    simulation |-> simulation] }
            ELSE UNION { IF turn.kind = "panic" THEN { Panic }
                         ELSE walk(GameTree_apply_action(simulation, turn.value),
                                   n_turns + 1) :
                         turn \in GameTree_select_action(
                                      GameTree_get_possible_actions(simulation)) }
    IN  walk(game, 0)

\* A faulty variant that C26 tells apart: the walk stops below the root.
backup_below_root(tree, node, n_wins) ==
    LET RECURSIVE visited(_)
        visited(v_i) ==
            IF tree.arena[v_i].parent = None THEN { }
            ELSE { v_i } \cup visited(tree.arena[v_i].parent[1])
    IN  [tree EXCEPT !.arena =
           [i \in DOMAIN @ |->
              IF i \in visited(node)
              THEN [@[i] EXCEPT !.n_visits = @ + 1, !.total_wins = @ + n_wins]
              ELSE @[i]]]

\* MCSearchTree::backup with StatsNode::update: the loop visits node and then
\* each parent in turn, up to the one that has none
backup(tree, node, n_wins) ==
    LET RECURSIVE visited(_)
        visited(v_i) ==
            IF tree.arena[v_i].parent = None THEN { v_i }
            ELSE { v_i } \cup visited(tree.arena[v_i].parent[1])
    IN  [tree EXCEPT !.arena =
           [i \in DOMAIN @ |->
              IF i \in visited(node)
              THEN [@[i] EXCEPT !.n_visits = @ + 1, !.total_wins = @ + n_wins]
              ELSE @[i]]]

\* A faulty variant that C25 tells apart: on equal visits the later child wins.
best_action_last(tree) ==
    LET children == tree.arena[0].children
        most == CHOOSE k \in DOMAIN children :
                    \A j \in DOMAIN children :
                        \/ tree.arena[children[j]].n_visits < tree.arena[children[k]].n_visits
                        \/ /\ tree.arena[children[j]].n_visits = tree.arena[children[k]].n_visits
                           /\ j <= k
    IN  IF children = << >> THEN Panic
        ELSE Ok(GameTree_get_last_action(tree.arena[children[most]].game)[1])

\* The end of find_best_action: the loop over the root's children and the
\* unwrap of best_action
best_action(tree) ==
    LET children == tree.arena[0].children
        best[k \in 0..Len(children)] ==
            IF k = 0 THEN [most_visits |-> 0, best_action |-> None]
            ELSE Only({ IF tree.arena[children[k]].n_visits > so_far.most_visits
                        THEN [most_visits |-> tree.arena[children[k]].n_visits,
                              best_action |->
                                GameTree_get_last_action(tree.arena[children[k]].game)]
                        ELSE so_far :
                        so_far \in { best[k - 1] } })
    IN  IF best[Len(children)].best_action = None THEN Panic
        ELSE Ok(best[Len(children)].best_action[1])

\* What find_best_action has returned so far: nothing
Running == [kind |-> "Running"]

\* let mut search_tree = MCSearchTree::new(game_tree, maxi_player, options),
\* as in test_chooses_right_answer, and the call search_tree.find_best_action()
MctsInit ==
    \E g \in { new_with_type(White, Base) } :
        /\ unplayed_pieces = g.unplayed_pieces
        /\ board = g.board
        /\ stacks = g.stacks
        /\ turns = g.turns
        /\ current_player = g.current_player
        /\ status = g.status
        /\ game_type = g.game_type
        /\ first_player = White
        /\ n_accepted = 0
        /\ script = << >>
        /\ free = 0
        /\ submitted = << >>
        /\ result = None
        /\ engine_game = None
        /\ \E n_iterations \in 0..MaxIterations, max_depth \in { 0, 1, 170 },
              maxi_player \in BOOLEAN :
               search_tree = MCSearchTree_new(
                                 get_3_move_connect_2_tree, maxi_player,
                                 [max_depth               |-> max_depth,
                                  exploration_coefficient |-> 2,
                                  n_iterations            |-> n_iterations])
        /\ search = [i |-> 0, v |-> None, rollout |-> None, returned |-> Running]
        /\ mm = None

\* One pass of the loop of find_best_action: select, simulate, backup
Iteration ==
    /\ search.returned = Running
    /\ search.i < search_tree.options.n_iterations
    /\ \E selected \in select(search_tree, 0) :
           IF selected.kind = "panic"
           THEN /\ search' = [search EXCEPT !.returned = Panic]
                /\ search_tree' = search_tree
           ELSE \E reward \in simulate(selected.tree.arena[selected.v].game,
                                       search_tree.options.max_depth,
                                       search_tree.maxi_player) :
                    IF reward.kind = "panic"
                    THEN /\ search' = [search EXCEPT !.returned = Panic]
                         /\ search_tree' = selected.tree
                    ELSE /\ search_tree' = backup(selected.tree, selected.v,
                                                  IF reward.value = Some(TRUE) THEN 1 ELSE 0)
                         /\ search' = [search EXCEPT !.i = @ + 1,
                                                     !.v = Some(selected.v),
                                                     !.rollout = Some(reward.value)]
    /\ UNCHANGED << gameVars, first_player, n_accepted, script, free, submitted,
                    result, engine_game, mm >>

\* After the loop: find_best_action returns, or its unwrap panics
Return ==
    /\ search.returned = Running
    /\ search.i = search_tree.options.n_iterations
    /\ search' = [search EXCEPT !.returned = best_action(search_tree)]
    /\ UNCHANGED << gameVars, first_player, n_accepted, script, free, submitted,
                    result, engine_game, search_tree, mm >>

MctsSpec == MctsInit /\ [][Iteration \/ Return]_vars

-----------------------------------------------------------------------------
\* C25: after n_iterations >= 1 iterations from a non-terminal root,
\* find_best_action returns the last action of the root child with the most
\* visits, the earliest created one if several have the most, and that action
\* is one of the possible actions of the root's state.
C25_BestActionMostVisited ==
    (/\ search # None
     /\ search.returned # Running
     /\ search_tree.options.n_iterations >= 1
     /\ GameTree_get_terminal_value(search_tree.arena[0].game,
                                    search_tree.maxi_player) = None)
      => /\ search.returned.kind = "Ok"
         /\ \E k \in DOMAIN search_tree.arena[0].children :
              LET child(j) == search_tree.arena[search_tree.arena[0].children[j]]
              IN  /\ \A j \in DOMAIN search_tree.arena[0].children :
                        /\ child(j).n_visits <= child(k).n_visits
                        /\ j < k => child(j).n_visits < child(k).n_visits
                  /\ search.returned.value = Last(child(k).game.path_so_far)
         /\ search.returned.value
              \in Range(GameTree_get_possible_actions(search_tree.arena[0].game))

\* The search has returned and two children of the root, the first not the
\* earliest, share the greatest number of visits.
C25_Witness ==
    /\ search # None
    /\ search.returned.kind = "Ok"
    /\ \E j, k \in DOMAIN search_tree.arena[0].children :
         /\ 1 < j
         /\ j < k
         /\ search_tree.arena[search_tree.arena[0].children[j]].n_visits
              = search_tree.arena[search_tree.arena[0].children[k]].n_visits
         /\ \A m \in DOMAIN search_tree.arena[0].children :
                search_tree.arena[search_tree.arena[0].children[m]].n_visits
                  <= search_tree.arena[search_tree.arena[0].children[k]].n_visits
         /\ search_tree.arena[search_tree.arena[0].children[1]].n_visits
              < search_tree.arena[search_tree.arena[0].children[k]].n_visits

\* C26: each iteration adds exactly 1 to n_visits of the node select returned
\* and of each of its ancestors up to the root, and of no other node; it adds
\* 1 to total_wins of exactly those nodes iff the rollout returned Some(true),
\* and changes no other total_wins.  After k iterations the root has k
\* visits, and every node has total_wins <= n_visits and at least as many
\* visits as its children together.
C26_Backup ==
    [][LET old == search_tree.arena
           new == search_tree'.arena
           depth[i \in DOMAIN new] ==
               IF new[i].parent = None THEN 0 ELSE depth[new[i].parent[1]] + 1
           ancestor[i \in DOMAIN new] ==
               [up \in 0..depth[i] |-> IF up = 0 THEN i
                                       ELSE new[ancestor[i][up - 1]].parent[1]]
           backed_up == { ancestor[search'.v[1]][up] : up \in 0..depth[search'.v[1]] }
           before_visits(i) == IF i \in DOMAIN old THEN old[i].n_visits ELSE 0
           before_wins(i) == IF i \in DOMAIN old THEN old[i].total_wins ELSE 0
           won == IF search'.rollout = Some(Some(TRUE)) THEN 1 ELSE 0
           sum[i \in DOMAIN new] ==
               [k \in 0..Len(new[i].children) |->
                  IF k = 0 THEN 0
                  ELSE sum[i][k - 1] + new[new[i].children[k]].n_visits]
       IN  search'.i = search.i + 1
             => /\ 0 \in backed_up
                /\ \A i \in DOMAIN new :
                     /\ new[i].n_visits
                          = before_visits(i) + (IF i \in backed_up THEN 1 ELSE 0)
                     /\ new[i].total_wins
                          = before_wins(i) + (IF i \in backed_up THEN won ELSE 0)
                     /\ new[i].total_wins <= new[i].n_visits
                     /\ new[i].n_visits >= sum[i][Len(new[i].children)]
                /\ new[0].n_visits = search'.i]_vars

\* The latest iteration selected a node two levels below the root and its
\* rollout was won: three nodes were backed up with a win.
C26_Witness ==
    /\ search # None
    /\ search.v # None
    /\ search.rollout = Some(Some(TRUE))
    /\ search_tree.arena[search.v[1]].parent # None
    /\ search_tree.arena[search_tree.arena[search.v[1]].parent[1]].parent # None
    /\ search_tree.arena[search.v[1]].total_wins = 1
    /\ search_tree.arena[0].total_wins >= 1

-----------------------------------------------------------------------------
(* Negamax: the GameTree trait of game_tree.rs.  A call's arguments, the    *)
(* tree and the depth, are in submitted; the call puts the action it        *)
(* returns into result.                                                      *)

\* The greatest depth a search is asked for.
MaxDepth == 3

\* evaluate_node scores are between -MaxScore and MaxScore.
MaxScore == 1

RECURSIVE negamax_same_color(_, _, _, _)

\* A faulty variant that C27 tells apart: the color is not flipped on recursion.
negamax_same_color(tree, self_, depth, color) ==
    IF depth = 0 \/ tree.is_terminal[self_]
    THEN Ok([node |-> self_, score |-> tree.evaluate_node[self_] * color])
    ELSE LET children == tree.get_children[self_]
             max_eval[k \in 0..Len(children)] ==
                 IF k = 0 THEN Ok(None)
                 ELSE Only({ IF m.kind = "panic" \/ child_eval.kind = "panic" THEN Panic
                             ELSE IF m.value # None /\ m.value[1].score >= -child_eval.value.score
                             THEN m
                             ELSE Ok(Some([node  |-> children[k],
                                           score |-> -child_eval.value.score])) :
                             m \in { max_eval[k - 1] },
                             child_eval \in { negamax_same_color(tree, children[k], depth - 1, color) } })
         IN  Only({ IF m.kind = "panic" \/ m.value = None THEN Panic ELSE Ok(m.value[1]) :
                    m \in { max_eval[Len(children)] } })

RECURSIVE negamax(_, _, _, _)

\* GameTree::negamax on the node `self` of the tree: Ok(Evaluation), or the
\* panic of max_eval.unwrap() when a node that is not terminal has no child.
\* max(a, b) keeps a when a.score >= b.score.
negamax(tree, self_, depth, color) ==
    IF depth = 0 \/ tree.is_terminal[self_]
    THEN Ok([node |-> self_, score |-> tree.evaluate_node[self_] * color])
    ELSE LET children == tree.get_children[self_]
             max_eval[k \in 0..Len(children)] ==
                 IF k = 0 THEN Ok(None)
                 ELSE Only({ IF m.kind = "panic" \/ child_eval.kind = "panic" THEN Panic
                             ELSE IF m.value # None /\ m.value[1].score >= -child_eval.value.score
                             THEN m
                             ELSE Ok(Some([node  |-> children[k],
                                           score |-> -child_eval.value.score])) :
                             m \in { max_eval[k - 1] },
                             child_eval \in { negamax(tree, children[k], depth - 1, -color) } })
         IN  Only({ IF m.kind = "panic" \/ m.value = None THEN Panic ELSE Ok(m.value[1]) :
                    m \in { max_eval[Len(children)] } })

\* GameTree::find_best_action
find_best_action(tree, depth) ==
    Only({ IF eval.kind = "panic" THEN Panic ELSE Ok(eval.value.node) :
           eval \in { IF tree.is_player_a_up THEN negamax(tree, 0, depth, 1)
                                             ELSE negamax(tree, 0, depth, -1) } })

\* A game tree and a depth: the root 0 is not terminal and has the children
\* 1 and 2, which have the children 3, 4 and 5, 6; those end the game.  A
\* node's action (get_node) is its number.
NegamaxInit ==
    \E g \in { new_with_type(White, Base) } :
        /\ unplayed_pieces = g.unplayed_pieces
        /\ board = g.board
        /\ stacks = g.stacks
        /\ turns = g.turns
        /\ current_player = g.current_player
        /\ status = g.status
        /\ game_type = g.game_type
        /\ first_player = White
        /\ n_accepted = 0
        /\ script = << >>
        /\ free = 0
        /\ \E is_player_a_up \in BOOLEAN, terminal_1, terminal_2 \in BOOLEAN,
              depth \in 1..MaxDepth,
              evaluate_node \in [0..6 -> (-MaxScore)..MaxScore] :
               /\ evaluate_node[0] = 0
               /\ submitted =
                    [tree  |-> [get_children   |-> [n \in 0..6 |->
                                                      IF n = 0 THEN << 1, 2 >>
                                                      ELSE IF n = 1 THEN << 3, 4 >>
                                                      ELSE IF n = 2 THEN << 5, 6 >>
                                                      ELSE << >>],
                                is_terminal    |-> [n \in 0..6 |->
                                                      IF n = 0 THEN FALSE
                                                      ELSE IF n = 1 THEN terminal_1
                                                      ELSE IF n = 2 THEN terminal_2
                                                      ELSE TRUE],
                                evaluate_node  |-> evaluate_node,
                                is_player_a_up |-> is_player_a_up],
                     depth |-> depth]
        /\ result = None
        /\ engine_game = None
        /\ search_tree = None
        /\ search = None
        /\ mm = None

\* tree.find_best_action(depth)
NegamaxCall ==
    /\ result = None
    /\ result' = Some(find_best_action(submitted.tree, submitted.depth))
    /\ UNCHANGED << gameVars, first_player, n_accepted, script, free, submitted,
                    engine_game, search_tree, search, mm >>

NegamaxSpec == NegamaxInit /\ [][NegamaxCall]_vars

\* C27: for a game tree with a non-terminal root and a depth d >= 1,
\* find_best_action(d) returns the action of a child of the root whose
\* minimax value to depth d - 1, with the players taking turns, is the
\* greatest among the children when player A is to move and the least when
\* player B is, and of the first such child in the order of get_children.
C27_NegamaxIsMinimax ==
    LET tree == submitted.tree
        children == tree.get_children[0]
        extreme(values, maximize) ==
            CHOOSE x \in values : \A y \in values : IF maximize THEN y <= x ELSE y >= x
        minimax[depth \in 0..MaxDepth + 1] ==
            [a_to_move \in BOOLEAN |->
               [n \in DOMAIN tree.get_children |->
                  IF depth = 0 \/ tree.is_terminal[n]
                  THEN tree.evaluate_node[n]
                  ELSE extreme({ minimax[depth - 1][~a_to_move][c] :
                                 c \in Range(tree.get_children[n]) }, a_to_move)]]
        value(k) == minimax[submitted.depth - 1][~tree.is_player_a_up][children[k]]
    IN  result # None
          => /\ result[1].kind = "Ok"
             /\ \E k \in DOMAIN children :
                  /\ result[1].value = children[k]
                  /\ \A j \in DOMAIN children :
                       IF tree.is_player_a_up
                       THEN value(j) <= value(k) /\ (j < k => value(j) < value(k))
                       ELSE value(j) >= value(k) /\ (j < k => value(j) > value(k))

\* Player B is to move at depth 3, both children of the root are searched
\* below, and the second child is returned: it has the strictly smaller value.
C27_Witness ==
    /\ result # None
    /\ "tree" \in DOMAIN submitted
    /\ ~submitted.tree.is_player_a_up
    /\ submitted.depth = 3
    /\ ~submitted.tree.is_terminal[1]
    /\ ~submitted.tree.is_terminal[2]
    /\ result[1] = Ok(2)

-----------------------------------------------------------------------------
(* The rollout policy of the search over Hive: hive/src/ai.rs *)

\* get_queen_and_liberties: Some((hex, n_neighbors)) or None
get_queen_and_liberties(game, player) ==
    LET queen == get_hex_for_piece(game, P("Queen", player, 1))
    IN  IF queen = None THEN None
        ELSE Some(<< queen[1],
                     Cardinality({ i \in 1..6 : neighbors(queen[1])[i] \in occupied(game) }) >>)

\* score_turn; the f64 score only ever holds whole numbers
score_turn(game, turn) ==
    LET from == get_hex_for_piece(game, turn.piece)[1]
        to == turn.hex
        toward(queen) ==
            IF queen[1][1] = to \/ to \in Range(neighbors(queen[1][1])) THEN queen[1][2] ELSE 0
        away(queen) ==
            IF from \in Range(neighbors(queen[1][1])) THEN queen[1][2] ELSE 0
        black == get_queen_and_liberties(game, Black)
        white == get_queen_and_liberties(game, White)
    IN  IF turn.kind = "Move"
        THEN (IF black # None THEN away(black) - toward(black) ELSE 0)
               + (IF white # None THEN toward(white) - away(white) ELSE 0)
        ELSE 0

\* GameState::select_action on the candidates, a set here: every turn it can
\* return.  Among equal best scores the source keeps the first of the list;
\* when the best score is 0.0 the random generator picks any candidate; the
\* split_first().unwrap() panics on an empty list.
select_action(game, actions) ==
    LET scores == { score_turn(game, turn) : turn \in actions }
        best_score == IF game.current_player = Black
                      THEN CHOOSE s \in scores : \A t \in scores : t <= s
                      ELSE CHOOSE s \in scores : \A t \in scores : t >= s
    IN  IF actions = {} THEN { Panic }
        ELSE IF best_score = 0 THEN { Ok(turn) : turn \in actions }
        ELSE { Ok(turn) : turn \in { t \in actions : score_turn(game, t) = best_score } }

-----------------------------------------------------------------------------
\* C28: select_action over the candidates of a state returns a move whose
\* score_turn is the greatest among them when Black is to move and the least
\* when White is; it may return any candidate only when they all score 0.
C28_SelectActionBest ==
    \A actions \in { get_valid_moves(self) } :
        \A chosen \in select_action(self, actions) :
            /\ chosen.kind = "Ok"
            /\ \/ \A turn \in actions : score_turn(self, turn) = 0
               \/ \A turn \in actions :
                      IF current_player = Black
                      THEN score_turn(self, turn) <= score_turn(self, chosen.value)
                      ELSE score_turn(self, turn) >= score_turn(self, chosen.value)

-----------------------------------------------------------------------------
\* C29: in every engine state that holds a game, bestmove leaves the game
\* unchanged and returns a move token that parse_move_string resolves
\* against the current board to a turn of get_valid_moves() of that game.
C29_BestMove ==
    \A valid_moves \in { get_valid_moves(self) } :
        \A o \in get_best_move(Some(self)) :
            /\ o.game = Some(self)
            /\ o.out.kind = "Ok"
            /\ \E turn \in { parse_move_string(o.out.value, board, stacks) } :
                 /\ turn.kind = "Ok"
                 /\ turn.value \in valid_moves

-----------------------------------------------------------------------------
(* Matchmaker: roach-server/src/matchmaker.rs.  A player is the id it was   *)
(* inserted with (Player.id = Some(n)); a call and what it returned are in  *)
(* submitted and result.                                                     *)

\* How many players there are.
NumPlayers == 4

\* Matchmaker::is_queued
is_queued(m, player) == \E i \in DOMAIN m.pool : m.pool[i] = player

\* Matchmaker::get_pending_match_idx; the source counts from 0
get_pending_match_idx(m, player) ==
    LET found == { i \in DOMAIN m.pending_matches :
                     \/ m.pending_matches[i].white = player
                     \/ m.pending_matches[i].black = player }
    IN  IF found = {} THEN None ELSE Some(CHOOSE i \in found : \A j \in found : i <= j)

\* A faulty variant that C30 tells apart: a pending match is not looked for.
add_to_pool_queued_only(m, player) ==
    IF is_queued(m, player)
    THEN [mm |-> m, result |-> Err("PlayerAlreadyInQueue")]
    ELSE [mm |-> [m EXCEPT !.pool = Append(@, player)], result |-> Ok("()")]

\* Matchmaker::add_to_pool: the matchmaker afterwards and the value returned
add_to_pool(m, player) ==
    IF is_queued(m, player) \/ get_pending_match_idx(m, player) # None
    THEN [mm |-> m, result |-> Err("PlayerAlreadyInQueue")]
    ELSE [mm |-> [m EXCEPT !.pool = Append(@, player)], result |-> Ok("()")]

\* Matchmaker::submit_client; HiveMatch::create_session takes the clients
submit_client(m, player, client) ==
    LET idx == get_pending_match_idx(m, player)
        pending_match == m.pending_matches[idx[1]]
        player_black == pending_match.black = player
        other_player_id == IF player_black THEN pending_match.white ELSE pending_match.black
    IN  IF idx = None THEN [mm |-> m, result |-> Err("PlayerNotQueued")]
        ELSE IF other_player_id \in DOMAIN m.player_clients
        THEN [mm |-> [m EXCEPT !.player_clients = remove(@, other_player_id),
                               !.pending_matches = SubSeq(@, 1, idx[1] - 1)
                                                     \o SubSeq(@, idx[1] + 1, Len(@))],
              result |-> Ok([status       |-> "Ready",
                             hive_match   |-> pending_match,
                             black_client |-> IF player_black THEN client
                                              ELSE m.player_clients[other_player_id],
                             white_client |-> IF player_black
                                              THEN m.player_clients[other_player_id]
                                              ELSE client])]
        ELSE [mm |-> [m EXCEPT !.player_clients = insert(@, player, client)],
              result |-> Ok([status |-> "Pending"])]

\* Matchmaker::poll; HiveMatch::new(player, opponent, game_type) makes the
\* player White and the opponent, the last of the pool, Black
poll(m, player) ==
    IF get_pending_match_idx(m, player) # None THEN [mm |-> m, result |-> Ok("Ready")]
    ELSE IF ~is_queued(m, player) THEN [mm |-> m, result |-> Err("PlayerNotQueued")]
    ELSE IF Len(m.pool) > 1
    THEN LET idx == CHOOSE i \in DOMAIN m.pool : m.pool[i] = player
             removed == SubSeq(m.pool, 1, idx - 1) \o SubSeq(m.pool, idx + 1, Len(m.pool))
             opponent == Last(removed)
         IN  [mm |-> [m EXCEPT !.pool = SubSeq(removed, 1, Len(removed) - 1),
                               !.pending_matches =
                                   Append(@, [id |-> None, white |-> player,
                                              black |-> opponent,
                                              game_type |-> m.game_type])],
              result |-> Ok("Ready")]
    ELSE [mm |-> m, result |-> Ok("NotReady")]

\* Matchmaker::new(GameType::Base), as the server creates it
MatchmakerInit ==
    \E g \in { new_with_type(White, Base) } :
        /\ unplayed_pieces = g.unplayed_pieces
        /\ board = g.board
        /\ stacks = g.stacks
        /\ turns = g.turns
        /\ current_player = g.current_player
        /\ status = g.status
        /\ game_type = g.game_type
        /\ first_player = White
        /\ n_accepted = 0
        /\ script = << >>
        /\ free = 0
        /\ submitted = << >>
        /\ result = None
        /\ engine_game = None
        /\ search_tree = None
        /\ search = None
        /\ mm = [pool |-> << >>, game_type |-> Base, pending_matches |-> << >>,
                 player_clients |-> << >>]

\* One call of add_to_pool, poll or submit_client by a player
MatchmakerCall(call, returned) ==
    /\ mm' = returned.mm
    /\ result' = Some(returned.result)
    /\ submitted' = call
    /\ UNCHANGED << gameVars, first_player, n_accepted, script, free, engine_game,
                    search_tree, search >>

MatchmakerSpec ==
    MatchmakerInit
      /\ [][\/ \E player \in 1..NumPlayers :
                 MatchmakerCall([fn |-> "add_to_pool", player |-> player],
                                add_to_pool(mm, player))
            \/ \E player \in 1..NumPlayers :
                 MatchmakerCall([fn |-> "poll", player |-> player], poll(mm, player))
            \/ \E player \in 1..NumPlayers, client \in { "a", "b" } :
                 MatchmakerCall([fn |-> "submit_client", player |-> player,
                                 client |-> client],
                                submit_client(mm, player, client))]_vars

\* C30: after any sequence of add_to_pool, poll and submit_client calls no
\* player id occurs twice in the pool and none is both in the pool and in a
\* pending match; add_to_pool by a player who is queued or has a pending
\* match returns PlayerAlreadyInQueue and changes nothing; poll by a player
\* with a pending match returns Ready and changes nothing; poll or
\* submit_client by a player neither queued nor pending returns
\* PlayerNotQueued.
C30_Matchmaker ==
    [][LET queued(m, p) == p \in Range(m.pool)
           pending(m, p) == \E hive_match \in Range(m.pending_matches) :
                                p \in { hive_match.white, hive_match.black }
           call == submitted'
           returned == result'[1]
       IN  /\ \A i, j \in DOMAIN mm'.pool : mm'.pool[i] = mm'.pool[j] => i = j
           /\ \A p \in 1..NumPlayers : ~(queued(mm', p) /\ pending(mm', p))
           /\ (call.fn = "add_to_pool" /\ (queued(mm, call.player) \/ pending(mm, call.player)))
                => /\ returned.kind = "Err"
                   /\ returned.error = "PlayerAlreadyInQueue"
                   /\ mm' = mm
           /\ (call.fn = "poll" /\ pending(mm, call.player))
                => /\ returned.kind = "Ok"
                   /\ returned.value = "Ready"
                   /\ mm' = mm
           /\ (/\ call.fn \in { "poll", "submit_client" }
               /\ ~queued(mm, call.player)
               /\ ~pending(mm, call.player))
                => /\ returned.kind = "Err"
                   /\ returned.error = "PlayerNotQueued"]_vars

\* A player who was matched by the opponent's poll has polled and was told
\* Ready, while two other players wait in the pool.
C30_Witness ==
    /\ mm # None
    /\ submitted # << >>
    /\ submitted.fn = "poll"
    /\ result = Some(Ok("Ready"))
    /\ \E hive_match \in Range(mm.pending_matches) : hive_match.black = submitted.player
    /\ Len(mm.pool) = 2

-----------------------------------------------------------------------------
(* Frame and effect of the turns (submit_turn_unchecked) *)

\* C31: an accepted Move(p, dest) of the piece p that is on top at the hex
\* from puts p on top at dest; the piece that was on top at dest, if any,
\* becomes the last element of stacks[dest]; at from the last element of
\* stacks[from], if any, is popped and becomes the top piece, otherwise from
\* is left unoccupied; the top piece and the stack of every other hex, and
\* unplayed_pieces, stay as they were.
C31_MoveEffect ==
    [][ (n_accepted' = n_accepted + 1 /\ submitted'.kind = "Move") =>
        LET p == submitted'.piece
            dest == submitted'.hex
            st(s, h) == IF h \in DOMAIN s THEN s[h] ELSE << >>
        IN  \E from \in DOMAIN board :
              /\ board[from] = p
              /\ from # dest
              /\ dest \in DOMAIN board' /\ board'[dest] = p
              /\ IF dest \in DOMAIN board
                 THEN st(stacks', dest) = Append(st(stacks, dest), board[dest])
                 ELSE st(stacks', dest) = st(stacks, dest)
              /\ IF st(stacks, from) # << >>
                 THEN /\ from \in DOMAIN board'
                      /\ board'[from] = Last(st(stacks, from))
                      /\ st(stacks', from)
                           = SubSeq(st(stacks, from), 1, Len(st(stacks, from)) - 1)
                 ELSE /\ from \notin DOMAIN board'
                      /\ st(stacks', from) = << >>
              /\ \A h \in (DOMAIN board \cup DOMAIN board'
                           \cup DOMAIN stacks \cup DOMAIN stacks') \ { from, dest } :
                    /\ (h \in DOMAIN board) = (h \in DOMAIN board')
                    /\ h \in DOMAIN board => board'[h] = board[h]
                    /\ st(stacks', h) = st(stacks, h)
              /\ unplayed_pieces' = unplayed_pieces ]_vars

\* An accepted Move has put its piece on a hex that was occupied: the piece
\* it covers is now the last element of the stack there.
C31_Witness ==
    /\ result = "Ok"
    /\ submitted.kind = "Move"
    /\ submitted.hex \in DOMAIN board
    /\ board[submitted.hex] = submitted.piece
    /\ submitted.hex \in DOMAIN stacks
    /\ stacks[submitted.hex] # << >>

\* C32: in every state that is not terminal submit_turn(Pass) is accepted,
\* whatever get_valid_moves offers; it appends Pass to turns, toggles
\* current_player, takes status from NotStarted to InProgress and leaves it
\* alone otherwise, and leaves board, stacks and unplayed_pieces unchanged.
C32_PassAlwaysAccepted ==
    ~is_over(self) =>
        \E r \in { submit_turn(self, Pass) } :
            /\ r.result = "Ok"
            /\ r.game.turns = Append(turns, Pass)
            /\ r.game.current_player = other(current_player)
            /\ r.game.status = IF status = NotStarted THEN InProgress ELSE status
            /\ r.game.board = board
            /\ r.game.stacks = stacks
            /\ r.game.unplayed_pieces = unplayed_pieces
            /\ r.game.game_type = game_type

\* A Pass has just been accepted in a state where get_valid_moves offered
\* placements or movements.
C32_Witness ==
    /\ result = "Ok"
    /\ submitted = Pass
    /\ turns # << >> /\ Last(turns) = Pass
    /\ \E before \in { [self EXCEPT
                          !.turns = SubSeq(turns, 1, Len(turns) - 1),
                          !.current_player = other(current_player),
                          !.status = IF Len(turns) = 1 THEN NotStarted
                                     ELSE status] } :
           \E turn \in get_valid_moves(before) : turn.kind \in { "Place", "Move" }

\* C33 (as stated): every Place that submit_turn accepts places a piece of
\* current_player; every Move it accepts moves a top piece of current_player
\* or moves a piece next to a Pillbug, or next to a Mosquito touching a
\* Pillbug, of current_player to an empty hex next to that Pillbug or
\* Mosquito; every other Place or Move naming a piece of the opponent is
\* rejected with InvalidMove.
C33_CurrentPlayerInvalidMove ==
    \A valid_moves \in { get_valid_moves(self) } :
        LET tosser(s) ==
                /\ s \in DOMAIN board
                /\ board[s].owner = current_player
                /\ \/ board[s].bug = "Pillbug"
                   \/ /\ board[s].bug = "Mosquito"
                      /\ \E n \in Range(neighbors(s)) :
                            n \in DOMAIN board /\ board[n].bug = "Pillbug"
            toss(turn) ==
                \E s \in DOMAIN board :
                    /\ tosser(s)
                    /\ \E from \in Range(neighbors(s)) :
                          from \in DOMAIN board /\ board[from] = turn.piece
                    /\ turn.hex \in Range(neighbors(s))
                    /\ turn.hex \notin DOMAIN board
            own_top(turn) ==
                /\ turn.piece.owner = current_player
                /\ \E h \in DOMAIN board : board[h] = turn.piece
        IN  \A turn \in (all_turns(self) \cup valid_moves) \ { Pass } :
              \E r \in { submit_turn_given(self, turn, valid_moves).result } :
                /\ r # "panic"
                /\ (r = "Ok" /\ turn.kind = "Place")
                     => turn.piece.owner = current_player
                /\ (r = "Ok" /\ turn.kind = "Move")
                     => own_top(turn) \/ toss(turn)
                /\ (turn.piece.owner # current_player
                      /\ ~(turn.kind = "Move" /\ toss(turn)))
                     => r = "InvalidMove"

\* C33 (amended): as above, and the rejection is InvalidMove while the status
\* is NotStarted or InProgress and GameOver when it is Win or Draw.
C33_CurrentPlayer ==
    \A valid_moves \in { get_valid_moves(self) } :
        LET tosser(s) ==
                /\ s \in DOMAIN board
                /\ board[s].owner = current_player
                /\ \/ board[s].bug = "Pillbug"
                   \/ /\ board[s].bug = "Mosquito"
                      /\ \E n \in Range(neighbors(s)) :
                            n \in DOMAIN board /\ board[n].bug = "Pillbug"
            toss(turn) ==
                \E s \in DOMAIN board :
                    /\ tosser(s)
                    /\ \E from \in Range(neighbors(s)) :
                          from \in DOMAIN board /\ board[from] = turn.piece
                    /\ turn.hex \in Range(neighbors(s))
                    /\ turn.hex \notin DOMAIN board
            own_top(turn) ==
                /\ turn.piece.owner = current_player
                /\ \E h \in DOMAIN board : board[h] = turn.piece
        IN  \A turn \in (all_turns(self) \cup valid_moves) \ { Pass } :
              \E r \in { submit_turn_given(self, turn, valid_moves).result } :
                /\ r # "panic"
                /\ (r = "Ok" /\ turn.kind = "Place")
                     => turn.piece.owner = current_player
                /\ (r = "Ok" /\ turn.kind = "Move")
                     => own_top(turn) \/ toss(turn)
                /\ (turn.piece.owner # current_player
                      /\ ~(turn.kind = "Move" /\ toss(turn)))
                     => r = (IF is_over(self) THEN "GameOver"
                                 ELSE "InvalidMove")

\* A Pillbug, or a Mosquito next to one, has just thrown a piece of the
\* opponent: the accepted Move names a piece of the player now to move.
C33_Witness ==
    /\ result = "Ok"
    /\ submitted.kind = "Move"
    /\ submitted.piece.owner = current_player
    /\ ~is_over(self)

-----------------------------------------------------------------------------
(* The search tree of find_best_action *)

\* C34: expand(v) on a node that is not terminal and has unexplored actions
\* removes the chosen action from v.unexplored_actions, appends exactly one
\* node at the end of the arena, whose parent is v and whose state is v's
\* state after that action, and appends its index to v.children; so in the
\* tree of every search the last actions of the children of a node are
\* pairwise distinct, none of them is among its unexplored actions, and a
\* terminal node has no children.
C34_Expand ==
    search_tree # None =>
        LET arena == search_tree.arena
            n == Cardinality(DOMAIN arena)
            terminal(node) ==
                GameTree_get_terminal_value(node.game, search_tree.maxi_player) # None
            last_action(i) == GameTree_get_last_action(arena[i].game)
        IN  /\ DOMAIN arena = 0..(n - 1)
            /\ \A v \in DOMAIN arena :
                 /\ \A j, k \in DOMAIN arena[v].children :
                       j # k => last_action(arena[v].children[j])
                                  # last_action(arena[v].children[k])
                 /\ \A j \in DOMAIN arena[v].children :
                       /\ arena[v].children[j] \in DOMAIN arena
                       /\ arena[arena[v].children[j]].parent = Some(v)
                       /\ last_action(arena[v].children[j]) # None
                       /\ last_action(arena[v].children[j])[1]
                            \notin Range(arena[v].unexplored_actions)
                 /\ terminal(arena[v]) => arena[v].children = << >>
            /\ \A v \in DOMAIN arena :
                 (~terminal(arena[v]) /\ arena[v].unexplored_actions # << >>) =>
                   \A out \in expand(search_tree, v) :
                     /\ out.kind = "Ok"
                     /\ out.v = n
                     /\ DOMAIN out.tree.arena = 0..n
                     /\ \E action \in Range(arena[v].unexplored_actions) :
                          /\ out.tree.arena[v].unexplored_actions
                               = SelectSeq(arena[v].unexplored_actions,
                                           LAMBDA a : a # action)
                          /\ Len(out.tree.arena[v].unexplored_actions)
                               = Len(arena[v].unexplored_actions) - 1
                          /\ out.tree.arena[n].game
                               = GameTree_apply_action(arena[v].game, action)
                     /\ out.tree.arena[n].parent = Some(v)
                     /\ out.tree.arena[n].idx = n
                     /\ out.tree.arena[n].children = << >>
                     /\ out.tree.arena[n].n_visits = 0
                     /\ out.tree.arena[v].children = Append(arena[v].children, n)
                     /\ out.tree.arena[v]
                          = [arena[v] EXCEPT
                               !.unexplored_actions = out.tree.arena[v].unexplored_actions,
                               !.children = out.tree.arena[v].children]
                     /\ \A i \in DOMAIN arena \ { v } : out.tree.arena[i] = arena[i]

\* A search has expanded the root fully, a node below it twice, and has
\* reached a terminal node.
C34_Witness ==
    /\ search_tree # None
    /\ search_tree.arena[0].unexplored_actions = << >>
    /\ Len(search_tree.arena[0].children) = 3
    /\ \E v \in DOMAIN search_tree.arena :
          v # 0 /\ Len(search_tree.arena[v].children) = 2
    /\ \E v \in DOMAIN search_tree.arena :
          GameTree_get_terminal_value(search_tree.arena[v].game,
                                      search_tree.maxi_player) # None

\* C35: simulate(max_depth, maxi_player) works on a clone of the node's state,
\* which it only extends; it returns Some(v) as soon as the simulated state is
\* terminal with value v, and otherwise stops with None after applying at
\* most max_depth actions.
C35_Simulate ==
    search_tree # None =>
        \A node \in DOMAIN search_tree.arena :
            LET game == search_tree.arena[node].game
                max_depth == search_tree.options.max_depth
                maxi_player == search_tree.maxi_player
                applied(out) == Len(out.simulation.path_so_far) - Len(game.path_so_far)
                terminal(path) ==
                    GameTree_get_terminal_value([game EXCEPT !.path_so_far = path],
                                                maxi_player)
            IN  \A out \in simulate(game, max_depth, maxi_player) :
                  /\ out.kind = "Ok"
                  /\ SubSeq(out.simulation.path_so_far, 1, Len(game.path_so_far))
                       = game.path_so_far
                  /\ out.value # None =>
                       /\ out.value = terminal(out.simulation.path_so_far)
                       /\ \A k \in Len(game.path_so_far)..(Len(out.simulation.path_so_far) - 1) :
                             terminal(SubSeq(out.simulation.path_so_far, 1, k)) = None
                  /\ out.value = None =>
                       \A k \in Len(game.path_so_far)..(Len(game.path_so_far) + max_depth) :
                             k <= Len(out.simulation.path_so_far)
                               => terminal(SubSeq(out.simulation.path_so_far, 1, k)) = None
                  /\ applied(out) <= max_depth

\* C36: whenever find_best_action evaluates ucb1(parent, child), from
\* best_child on the way down in select, the child and the parent both have
\* n_visits >= 1, so the value is a number; and best_child is only called on
\* nodes that have at least one child.
C36_Ucb1WellDefined ==
    (/\ search_tree # None
     /\ search.returned = Running
     /\ search.i < search_tree.options.n_iterations) =>
        LET arena == search_tree.arena
            RECURSIVE descended(_)
            \* the nodes select(0) calls best_child on
            descended(v) ==
                IF GameTree_get_terminal_value(arena[v].game,
                                               search_tree.maxi_player) # None
                THEN { }
                ELSE IF arena[v].unexplored_actions # << >> THEN { }
                ELSE { v } \cup UNION { IF next.kind = "panic" THEN { }
                                        ELSE descended(next.value) :
                                        next \in { best_child(search_tree, v) } }
        IN  \A parent \in descended(0) :
              /\ arena[parent].children # << >>
              /\ arena[parent].n_visits >= 1
              /\ \A k \in DOMAIN arena[parent].children :
                    /\ arena[arena[parent].children[k]].n_visits >= 1
                    /\ ~ucb1(search_tree, parent, arena[parent].children[k]).nan

\* The next select descends through the root and through one of its
\* children, comparing the ucb1 of three and of two children.
C36_Witness ==
    /\ search_tree # None
    /\ search.returned = Running
    /\ search.i < search_tree.options.n_iterations
    /\ search_tree.arena[0].unexplored_actions = << >>
    /\ Len(search_tree.arena[0].children) = 3
    /\ \E next \in { best_child(search_tree, 0) } :
          /\ next.kind = "Ok"
          /\ search_tree.arena[next.value].unexplored_actions = << >>
          /\ Len(search_tree.arena[next.value].children) = 2

-----------------------------------------------------------------------------
(* The rules of the game in the reachable states *)

\* C37: in every reachable state with at least two occupied hexes, for every
\* occupied hex h with no stack beneath its top piece,
\* check_one_hive_rule(board keys without h, h) is the boolean that
\* all_contiguous(board keys without h) is: counting at most two flips
\* between occupied and empty around h never disagrees with the search.
C37_OneHiveShortcut ==
    Cardinality(DOMAIN board) >= 2 =>
        \A h \in DOMAIN board :
            stack_at(self, h) = << >> =>
                check_one_hive_rule(self, DOMAIN board \ { h }, h)
                  = all_contiguous(DOMAIN board \ { h })

\* The shortcut answers for one hex (at most two flips around it, and the
\* rest of the hive is contiguous), and the full search answers no for
\* another, which holds the hive together.
C37_Witness ==
    /\ Cardinality(DOMAIN board) >= 4
    /\ \E h \in DOMAIN board :
          /\ stack_at(self, h) = << >>
          /\ count_flips(self, neighbors(h), 1, FALSE, 0) = 2
          /\ all_contiguous(DOMAIN board \ { h })
    /\ \E h \in DOMAIN board :
          /\ stack_at(self, h) = << >>
          /\ count_flips(self, neighbors(h), 1, FALSE, 0) > 2
          /\ ~all_contiguous(DOMAIN board \ { h })

\* C38 (as stated): in every state reached by accepted submit_turn calls in
\* which at least 8 turns have been accepted (turn_no() >= 9), neither
\* player's Queen is still in unplayed_pieces.
C38_QueenByFourthTurnAlways ==
    Len(turns) >= 8 =>
        \A color \in { White, Black } :
            Piece_new("Queen", color) \notin Range(unplayed_pieces)

\* C38 (amended): in every such state a player's Queen is still in
\* unplayed_pieces only if that player's fourth turn, the seventh turn of the
\* game for the first player and the eighth for the other, was a Pass.
C38_QueenByFourthTurn ==
    Len(turns) >= 8 =>
        \A color \in { White, Black } :
            Piece_new("Queen", color) \in Range(unplayed_pieces)
              => turns[IF color = first_player THEN 7 ELSE 8] = Pass

\* Eight or more turns have been accepted, one player has the Queen in play
\* and the other, who passed on the fourth turn, has not.
C38_Witness ==
    /\ Len(turns) >= 8
    /\ result = "Ok"
    /\ \E color \in { White, Black } :
          /\ Piece_new("Queen", color) \in Range(unplayed_pieces)
          /\ Piece_new("Queen", other(color)) \notin Range(unplayed_pieces)

\* C39: in every state reached by accepted submit_turn calls, whenever the
\* status is InProgress the board holds at least one piece.
C39_StartedGameHasHive ==
    status = InProgress => DOMAIN board # { }

-----------------------------------------------------------------------------
(* A match between two clients (roach-server/src/hive_match.rs).  The game  *)
(* of the session is held in the GameState variables; `submitted` is the    *)
(* step of HiveSession::play that ran last, with what the clients answered, *)
(* and `result` is None until play has returned and Some(value) after.      *)

\* How many turns a session may play.
MaxSessionTurns == 2

\* What a client does with a command that asks for its game state (newgame,
\* play): it answers as an engine in step with the server does, the
\* connection drops, the answer lacks the closing ok, is the string of
\* another game, or is no game string.
state_replies == { "in step", "dropped", "no ok", "other game", "no game" }

\* What a client does with bestmove: it answers with one of the valid moves,
\* the connection drops, the answer lacks the closing ok, is no move string,
\* or is a move that is not valid (the black Queen with no destination).
bestmove_replies(game) ==
    { [kind |-> "valid", turn |-> turn] : turn \in get_valid_moves(game) }
      \cup { [kind |-> kind, turn |-> Pass] :
               kind \in { "dropped", "no ok", "no move", "not valid" } }

\* Client::submit_command for a newgame or play command: the ClientResult,
\* given the game the server holds; an absent game string makes the client's
\* answer an error line
submit_state_command(game, reply) ==
    Only({ CASE reply = "dropped" ->
                  Err([kind |-> "ClientError",
                       msg  |-> << "RecvError" >>])
             [] reply = "no ok" -> Ok(game_string)
             [] reply = "other game" ->
                  Ok(<< "B", "a", "s", "e", ";", "N", "o", "t", "S", "t", "a", "r", "t", "e", "d", ";", "W", "h", "i", "t", "e", "[", "1", "]" >> \o << "\n", "o", "k" >>)
             [] reply = "no game" -> Ok(<< "e", "r", "r" >> \o << "\n", "o", "k" >>)
             [] OTHER -> Ok(game_string \o << "\n", "o", "k" >>) :
           game_string \in { IF displayed.kind = "Ok" THEN displayed.value ELSE << "e", "r", "r" >> :
                             displayed \in { Display_GameState(game) } } })

\* Client::submit_command for bestmove
submit_bestmove_command(game, reply) ==
    CASE reply.kind = "dropped" ->
           Err([kind |-> "ClientError", msg |-> << "RecvError" >>])
      [] reply.kind = "no ok" -> Ok(<< "b", "S", "1" >>)
      [] reply.kind = "no move" -> Ok(<< "x", "x" >> \o << "\n", "o", "k" >>)
      [] reply.kind = "not valid" -> Ok(<< "b", "Q" >> \o << "\n", "o", "k" >>)
      [] OTHER -> Ok(get_turn_string(reply.turn, game) \o << "\n", "o", "k" >>)

\* output.strip_suffix("\nok").ok_or(MatchError::ProtocolError(..))
strip_engine_output(output) ==
    IF /\ Len(output) >= 3
       /\ SubSeq(output, Len(output) - 2, Len(output)) = << "\n", "o", "k" >>
    THEN Ok(SubSeq(output, 1, Len(output) - 3))
    ELSE Err([kind |-> "ProtocolError",
              msg  |-> << "Invalid engine output " >> \o output])

\* err.into() for the error types of the session: impl From<ClientError>,
\* From<Error> and From<TurnError> for MatchError, and MatchError itself.
\* From<TurnError>::from is `err.into()`, which is that same function: the
\* call recurses without end and never returns.
MatchError_from(err) ==
    CASE err.kind = "ClientError" ->
           Ok([kind |-> "WebsocketFailure", msg |-> err.msg])
      [] err.kind = "ParserError" ->
           Ok([kind |-> "ProtocolError",
               msg  |-> << "Failed to parse turn: ", err.msg >>])
      [] err.kind = "EngineError" ->
           Ok([kind |-> "InvalidTurn", msg |-> << "Invalid move: ", err.msg >>])
      [] err.kind = "TurnError" -> Panic
      [] OTHER -> Ok(err)

\* fn white: MatchErrorWithBlame::White(err.into())
white(err) ==
    Only({ IF into.kind = "panic" THEN Panic
           ELSE Err([kind |-> "White", error |-> into.value]) :
           into \in { MatchError_from(err) } })

\* fn black, which builds MatchErrorWithBlame::White(err.into()) as well
black(err) ==
    Only({ IF into.kind = "panic" THEN Panic
           ELSE Err([kind |-> "White", error |-> into.value]) :
           into \in { MatchError_from(err) } })

\* HiveSession::check_game_state; self.game != received_game compares the
\* two states field by field
check_game_state(game, output) ==
    Only({ IF game_string.kind = "Err" THEN game_string
           ELSE Only({ IF received_game.kind = "panic" THEN Panic
                       ELSE IF received_game.kind = "Err"
                       THEN Err(MatchError_from(received_game.error).value)
                       ELSE IF game # received_game.value
                       THEN Err([kind |-> "InvalidState",
                                 msg  |-> << "Invalid game state: expected " >>
                                            \o Display_GameState(game).value
                                            \o << ", received " >>
                                            \o game_string.value])
                       ELSE Ok(<< >>) :
                       received_game \in { parse_game_string(game_string.value) } }) :
           game_string \in { strip_engine_output(output) } })

\* HiveSession::initialize, given what the clients do: Ok(()), Err(blame) or
\* no return.  checked[color] is the command sent to that client and the
\* check of its answer, with map_err(white) or map_err(black).
initialize(game, w_reply, b_reply) ==
    LET blame(color, err) == IF color = White THEN white(err) ELSE black(err)
        checked ==
            [color \in { White, Black } |->
               Only({ IF state.kind = "Err" THEN blame(color, state.error)
                      ELSE Only({ IF check.kind = "Err" THEN blame(color, check.error)
                                  ELSE check :
                                  check \in { check_game_state(game, state.value) } }) :
                      state \in { submit_state_command(
                                    game, IF color = White THEN w_reply ELSE b_reply) } })]
    IN  Only({ IF done[White].kind # "Ok" THEN done[White] ELSE done[Black] :
               done \in { checked } })

\* HiveSession::play_turn, given what the clients do: the game after the call
\* and Ok(()), Err(blame) or no return
play_turn(game, bestmove_reply, w_reply, b_reply) ==
    LET blame(color, err) == IF color = White THEN white(err) ELSE black(err)
        mover == game.current_player
        \* the arm of the match for the player to move
        moved ==
            Only({ IF bestmove_output.kind = "Err"
                   THEN [game |-> game, result |-> blame(mover, bestmove_output.error)]
                   ELSE Only({ IF turn_string.kind = "Err"
                     THEN [game |-> game, result |-> blame(mover, turn_string.error)]
                     ELSE Only({ IF turn.kind = "panic"
                       THEN [game |-> game, result |-> Panic]
                       ELSE IF turn.kind = "Err"
                       THEN [game |-> game, result |-> blame(mover, turn.error)]
                       ELSE Only({ IF done.result = "panic"
                                   THEN [game |-> done.game, result |-> Panic]
                                   ELSE IF done.result # "Ok"
                                   THEN [game   |-> game,
                                         result |-> blame(mover,
                                                          [kind  |-> "TurnError",
                                                           error |-> done.result])]
                                   ELSE [game |-> done.game, result |-> Ok(<< >>)] :
                                   done \in { submit_turn(game, turn.value) } }) :
                       turn \in { parse_move_string(turn_string.value,
                                                    game.board, game.stacks) } }) :
                     turn_string \in { strip_engine_output(bestmove_output.value) } }) :
                   bestmove_output \in { submit_bestmove_command(game, bestmove_reply) } })
    IN  Only({ IF play.result.kind # "Ok" THEN play
               ELSE Only({ [game   |-> play.game,
                            result |-> IF done[White].kind # "Ok" THEN done[White]
                                       ELSE done[Black]] :
                           done \in { [color \in { White, Black } |->
                               Only({ IF state.kind = "Err"
                                      THEN blame(color, state.error)
                                      ELSE Only({ IF check.kind = "Err"
                                                  THEN blame(color, check.error)
                                                  ELSE check :
                                                  check \in { check_game_state(
                                                      play.game, state.value) } }) :
                                      state \in { submit_state_command(
                                          play.game,
                                          IF color = White THEN w_reply
                                          ELSE b_reply) } })] } }) :
               play \in { moved } })

\* HiveSession::play, given the game string it took before run_game and what
\* run_game returned: Ok(MatchOutcome), Err(MatchError) or no return
play(game_string, run_game) ==
    LET \* format!("{:?}", err): #[derive(Debug)] on MatchError, the message
        \* kept as its pieces
        Debug_MatchError(err) == << err.kind, "(", "\"" >> \o err.msg \o << "\"", ")" >>
    IN
    IF run_game.kind = "panic" THEN Panic
    ELSE IF run_game.kind = "Ok"
    THEN Ok([status      |-> run_game.value,
             game_string |-> game_string,
             comment     |-> << "Game finished normally" >>,
             is_fault    |-> FALSE])
    ELSE IF run_game.error.kind = "Server" THEN Err(run_game.error.error)
    ELSE Ok([status      |-> IF run_game.error.kind = "White" THEN Win(Black)
                             ELSE Win(White),
             game_string |-> game_string,
             comment     |-> Debug_MatchError(run_game.error.error),
             is_fault    |-> TRUE])

\* HiveMatch::create_session: Black moves first
create_session(game_type_) == new_with_type(Black, game_type_)

\* run_game after a step that returned `step` and left `game`: None while
\* the loop goes on, Some(what play returns) when it ends
run_game(game, step) ==
    Only({ IF step.kind = "Ok" /\ ~is_over(game) THEN None
           ELSE Some(play(game_string.value,
                          IF step.kind = "Ok" THEN Ok(game.status) ELSE step)) :
           game_string \in { Display_GameState(create_session(game.game_type)) } })

\* let mut session = hive_match.create_session(b_client, w_client)
SessionInit ==
    \E g \in { create_session(Base) } :
        /\ unplayed_pieces = g.unplayed_pieces
        /\ board = g.board
        /\ stacks = g.stacks
        /\ turns = g.turns
        /\ current_player = g.current_player
        /\ status = g.status
        /\ game_type = g.game_type
        /\ first_player = Black
        /\ n_accepted = 0
        /\ script = << >>
        /\ free = 0
        /\ submitted = [step |-> "create_session"]
        /\ result = None
        /\ engine_game = None
        /\ search_tree = None
        /\ search = None
        /\ mm = None

\* session.play() up to the end of initialize
Initialize ==
    /\ submitted.step = "create_session"
    /\ \E w_reply \in state_replies, b_reply \in state_replies :
           /\ submitted' = [step |-> "initialize", w |-> w_reply, b |-> b_reply]
           /\ result' = run_game(self, initialize(self, w_reply, b_reply))
    /\ UNCHANGED << gameVars, first_player, n_accepted, script, free,
                    engine_game, search_tree, search, mm >>

\* One pass of the loop of run_game: play_turn
PlayTurn ==
    /\ submitted.step # "create_session"
    /\ result = None
    /\ Len(turns) < MaxSessionTurns
    /\ \E bestmove_reply \in bestmove_replies(self),
          w_reply \in state_replies, b_reply \in state_replies :
           \E step \in { play_turn(self, bestmove_reply, w_reply, b_reply) } :
               /\ submitted' = [step |-> "play_turn", mover |-> current_player,
                                bestmove |-> bestmove_reply.kind,
                                w |-> w_reply, b |-> b_reply]
               /\ result' = run_game(step.game, step.result)
               /\ unplayed_pieces' = step.game.unplayed_pieces
               /\ board' = step.game.board
               /\ stacks' = step.game.stacks
               /\ turns' = step.game.turns
               /\ current_player' = step.game.current_player
               /\ status' = step.game.status
               /\ game_type' = step.game.game_type
    /\ UNCHANGED << first_player, n_accepted, script, free,
                    engine_game, search_tree, search, mm >>

SessionSpec == SessionInit /\ [][Initialize \/ PlayTurn]_vars

\* C40: when a step of the match fails because of the Black client (its
\* websocket call fails, its bestmove output is malformed or not valid, or
\* the game state it reports differs from the server's), play returns a
\* MatchOutcome with is_fault = true and status Win(White); and a failure
\* caused by the White client gives Win(Black) in the same way.
C40_FaultAttribution ==
    ("step" \in DOMAIN submitted /\ submitted.step # "create_session") =>
        LET \* the client whose answer made the step fail, if one did
            failed == IF submitted.step = "play_turn" /\ submitted.bestmove # "valid"
                      THEN Some(submitted.mover)
                      ELSE IF submitted.w # "in step" THEN Some(White)
                      ELSE IF submitted.b # "in step" THEN Some(Black)
                      ELSE None
        IN  failed # None =>
              /\ result # None
              /\ result[1].kind = "Ok"
              /\ result[1].value.is_fault
              /\ result[1].value.status = Win(other(failed[1]))

====
